---- MODULE Spec2Model ----
(***************************************************************************)
(* Event store of packages/eventstore: appendOrCreateStream and the reads  *)
(* over a document database with multi-document transactions.              *)
(*                                                                         *)
(* The database is the committed store `db` (documents in record-id order, *)
(* one slot per record id ever allocated) and the catalog `colls`.  Each   *)
(* appendOrCreateStream call is a process: it runs the callback handed to  *)
(* session.withTransaction one database operation at a time, against the   *)
(* snapshot taken by its first operation plus its own writes; its writes   *)
(* reach `db` only at commit.  Operations issued without a session         *)
(* (getEventStreamBySubject) read `db`.                                    *)
(***************************************************************************)
EXTENDS Integers, Sequences, FiniteSets, TLC

VARIABLES
    projections,    \* the registry captured by createEventStore
    db,             \* committed documents, indexed by record id
    colls,          \* committed collections of the database
    pc,             \* per call: position in appendOrCreateStream
    batch,          \* per call: the events argument
    eventGroups,    \* per call: the Map of groupEventsByStreamSubject
    idx,            \* per call: index of the stream bucket being processed
    result,         \* per call: `result` of processStreamInTransaction
    streamResults,  \* per call: documents returned so far by the callback
    snapshot,       \* per call: the transaction's read snapshot
    writes,         \* per call: the transaction's uncommitted documents
    created,        \* per call: collections created by the transaction
    attempts,       \* per call: runs of the transaction callback so far
    session,        \* per call: "none", "open" or "ended"
    outcome,        \* per call: the value returned or the error thrown
    issued,         \* per call: findOneAndUpdate calls of the current bucket
    dates,          \* the values `now` read so far by new Date(), in order
    looped,         \* the calls run by the multi-stream loop on one stream
    wrapper,        \* the MongoClientWrapper of the store: its fields, its
                    \* client and the calls of its methods
    \* one entry per handleCommand invocation h, which appends as call h
    cmdPc,          \* handleCommand: its position
    streams,        \* handleCommand: options.streams
    streamIdx,      \* handleCommand: index of the stream being aggregated
    aggregatedStreamStates, \* handleCommand: the Map of states so far
    eventsToAppend, \* handleCommand: the handler's events, as an array
    calls,          \* handleCommand: the calls it has made, in order
    newState,       \* handleCommand: the value it returns
    call,           \* a call of a utility function: its name and arguments
    ret             \* what that call returned or threw

\* the variables of a utility call
uvars == <<call, ret>>

\* the variables of handleCommand
hvars == <<cmdPc, streams, streamIdx, aggregatedStreamStates,
           eventsToAppend, calls, newState>>

vars == <<projections, db, colls, pc, batch, eventGroups, idx, result,
          streamResults, snapshot, writes, created, attempts, session,
          outcome, issued, dates, looped, wrapper, hvars, uvars>>

----
\* Bounds of the model.

\* concurrent appendOrCreateStream calls
NumCalls == 2
\* longest events argument
MaxBatch == 3
\* runs of the transaction callback before the driver's retry window ends
MaxAttempts == 2

Calls == 1..NumCalls

----
\* Subjects are strings, modelled as sequences of characters.

SubjA == <<"u", "/", "1", "/", "x">>
SubjB == <<"u", "/", "2">>

\* subjects a caller can only build with a cast, past createSubject
SubjOne == <<"u">>
SubjNoColl == <<"/", "1">>
SubjNoId == <<"u", "/">>
StreamA == <<"u", "/", "1">>

RECURSIVE SplitFrom(_, _, _)
SplitFrom(s, i, cur) ==
    IF i > Len(s) THEN <<cur>>
    ELSE IF s[i] = "/" THEN <<cur>> \o SplitFrom(s, i + 1, <<>>)
    ELSE SplitFrom(s, i + 1, Append(cur, s[i]))

\* String.prototype.split('/')
Split(s) == SplitFrom(s, 1, <<>>)

RECURSIVE Join(_)
\* Array.prototype.join('/')
Join(parts) ==
    IF Len(parts) = 0 THEN <<>>
    ELSE IF Len(parts) = 1 THEN parts[1]
    ELSE parts[1] \o <<"/">> \o Join(Tail(parts))

\* the characters of [a-z0-9-] that the subjects use
SegmentChars == {"u", "x", "1", "2", "-"}

\* SUBJECT_REGEX.test(subject): two or more non-empty segments
IsSubject(subject) ==
    LET parts == Split(subject)
    IN  /\ Len(parts) >= 2
        /\ \A k \in 1..Len(parts) :
             /\ Len(parts[k]) >= 1
             /\ \A i \in 1..Len(parts[k]) : parts[k][i] \in SegmentChars

Ok(v) == [ok |-> TRUE, v |-> v]
Throw(e) == [ok |-> FALSE, err |-> e]

getStreamSubjectFromSubject(subject) ==
    LET parts == Split(subject)
    IN  IF Len(parts) < 2 THEN Throw("InvalidSubjectFormatError")
        ELSE Ok(Join(SubSeq(parts, 1, 2)))

getCollectionNameFromSubject(subject) ==
    LET parts == Split(subject)
    IN  IF Len(parts) = 0 \/ parts[1] = <<>>
        THEN Throw("InvalidSubjectFormatError")
        ELSE Ok(parts[1])

----
\* Domain events and the batches a caller may pass.

\* (subject, type) of the events of callers that run one at a time
Templates ==
    { [subject |-> SubjA, type |-> "created"],
      [subject |-> SubjB, type |-> "created"],
      [subject |-> SubjA, type |-> "updated"],
      [subject |-> SubjB, type |-> "poison"] }

\* (subject, type) of the events of callers that run concurrently
ConcurrentTemplates ==
    { [subject |-> SubjA, type |-> "created"],
      [subject |-> SubjB, type |-> "created"] }

\* (subject, type) of the events of callers that cast strings to Subject
SubjectTemplates ==
    { [subject |-> SubjA, type |-> "created"],
      [subject |-> SubjOne, type |-> "created"],
      [subject |-> SubjNoColl, type |-> "created"],
      [subject |-> SubjNoId, type |-> "created"] }

\* createDomainEvent: a fresh id per event; c and i stand for the UUID
createDomainEvent(c, i, t) ==
    [id |-> <<c, i>>, subject |-> t.subject, type |-> t.type]

BatchesOf(c, templates) ==
    UNION { { [i \in 1..n |-> createDomainEvent(c, i, f[i])] :
                f \in [1..n -> templates] } : n \in 0..MaxBatch }

\* the events argument of appendOrCreateStream: an array, or undefined
Given(events) == [given |-> TRUE, events |-> events]
Missing == [given |-> FALSE, events |-> <<>>]

ArgumentsOf(c, templates) ==
    { Given(b) : b \in BatchesOf(c, templates) } \cup {Missing}

Reverse(q) == [i \in 1..Len(q) |-> q[Len(q) + 1 - i]]

RECURSIVE GroupInto(_, _)
\* the loop of groupEventsByStreamSubject: groups is the Map so far, as
\* a sequence of [key, events] in insertion order
GroupInto(groups, events) ==
    IF events = <<>> THEN Ok(groups)
    ELSE
        LET event == Head(events)
            \* event.subject of undefined is a TypeError
            ss == IF "subject" \in DOMAIN event
                  THEN getStreamSubjectFromSubject(event.subject)
                  ELSE Throw("TypeError")
        IN  IF ~ss.ok THEN ss
            ELSE
                LET has == \E k \in 1..Len(groups) : groups[k].key = ss.v
                    g1 == IF has THEN groups
                          ELSE Append(groups, [key |-> ss.v, events |-> <<>>])
                    g2 == [k \in 1..Len(g1) |->
                             IF g1[k].key = ss.v
                             THEN [g1[k] EXCEPT !.events = Append(@, event)]
                             ELSE g1[k]]
                IN  GroupInto(g2, Tail(events))

\* a grouping that puts the whole batch under its first stream subject
groupEventsUnderFirst(events) ==
    IF events = <<>> THEN Ok(<<>>)
    ELSE
        LET ss == getStreamSubjectFromSubject(events[1].subject)
        IN  IF ~ss.ok THEN ss
            ELSE Ok(<<[key |-> ss.v, events |-> events]>>)

\* a grouping that walks the batch from its end
groupEventsBackwards(events) == GroupInto(<<>>, Reverse(events))

\* a grouping whose set() replaces the bucket by the event
groupEventsOverwriting(events) ==
    LET g == GroupInto(<<>>, events)
    IN  IF ~g.ok THEN g
        ELSE Ok([k \in 1..Len(g.v) |->
                   [key |-> g.v[k].key,
                    events |-> <<g.v[k].events[Len(g.v[k].events)]>>]])

groupEventsByStreamSubject(events) == GroupInto(<<>>, events)

----
\* Projection definitions.  A state is a tagged JavaScript value.

Arr(v) == [k |-> "arr", v |-> v]
Bool(v) == [k |-> "bool", v |-> v]

\* JavaScript truthiness, as `||` tests it
Truthy(s) == IF s.k = "bool" THEN s.v ELSE TRUE

\* appends the id of every event it is given; handles "created"
LogProjection == [name |-> "log", canHandle |-> {"created"}]
\* a flag every event flips; throws on a "poison" event
OpenProjection == [name |-> "open", canHandle |-> {"updated", "poison"}]

initialState(name) ==
    IF name = "log" THEN Arr(<<>>) ELSE Bool(TRUE)

\* an evolve that takes every event
evolveTotal(name, state, event) ==
    IF name = "log" THEN Ok(Arr(Append(state.v, event.id)))
    ELSE Ok(Bool(~state.v))

evolve(name, state, event) ==
    IF name = "log" THEN Ok(Arr(Append(state.v, event.id)))
    ELSE IF event.type = "poison" THEN Throw("EvolveError")
    ELSE Ok(Bool(~state.v))

Registry == <<LogProjection, OpenProjection>>

RECURSIVE Reduce(_, _, _)
\* events.reduce((state, event) => projection.evolve(state, event), state)
Reduce(name, state, events) ==
    IF events = <<>> THEN Ok(state)
    ELSE
        LET s == evolve(name, state, Head(events))
        IN  IF ~s.ok THEN s ELSE Reduce(name, s.v, Tail(events))

----
\* Stream documents and processStreamInTransaction's two updates.

EmptyMap == [n \in {} |-> TRUE]

NoDoc == [live |-> FALSE]
Entry(coll, doc) == [live |-> TRUE, coll |-> coll, doc |-> doc]

\* an update that $sets events where it should $push
UpsertDocSet(isNew, prior, streamId, now, streamSubject, events) ==
    IF isNew
    THEN [streamId |-> streamId, streamSubject |-> streamSubject,
          metadata |-> [createdAt |-> now, updatedAt |-> now],
          events |-> events, projections |-> EmptyMap]
    ELSE [prior EXCEPT !.events = events, !.metadata.updatedAt = now]

\* an update that pushes at the front of the array
UpsertDocAtFront(isNew, prior, streamId, now, streamSubject, events) ==
    IF isNew
    THEN [streamId |-> streamId, streamSubject |-> streamSubject,
          metadata |-> [createdAt |-> now, updatedAt |-> now],
          events |-> events, projections |-> EmptyMap]
    ELSE [prior EXCEPT !.events = events \o @, !.metadata.updatedAt = now]

\* an update that $sets what it should $setOnInsert
UpsertDocSetAll(isNew, prior, streamId, now, streamSubject, events) ==
    IF isNew
    THEN [streamId |-> streamId, streamSubject |-> streamSubject,
          metadata |-> [createdAt |-> now, updatedAt |-> now],
          events |-> events, projections |-> EmptyMap]
    ELSE [prior EXCEPT !.events = @ \o events, !.streamId = streamId,
                       !.metadata = [createdAt |-> now, updatedAt |-> now]]

\* $setOnInsert / $set / $push of the first findOneAndUpdate, applied to
\* the matched document (isNew: none matched, the upsert inserts)
UpsertDoc(isNew, prior, streamId, now, streamSubject, events) ==
    IF isNew
    THEN [streamId |-> streamId, streamSubject |-> streamSubject,
          metadata |-> [createdAt |-> now, updatedAt |-> now],
          events |-> events, projections |-> EmptyMap]
    ELSE [prior EXCEPT !.events = @ \o events, !.metadata.updatedAt = now]

EventTypesOf(events) == { events[i].type : i \in 1..Len(events) }

\* a selection that takes every registered projection
applicableAll(reg, events) == reg

\* a selection that takes no projection
applicableNone(reg, events) == <<>>

applicableProjections(reg, events) ==
    SelectSeq(reg, LAMBDA p : p.canHandle \cap EventTypesOf(events) # {})

\* a fold that always starts from initialState()
StartStateInitial(doc, name) == initialState(name)

\* result?.projections?.[projection.name] || projection.initialState()
StartState(doc, name) ==
    IF name \in DOMAIN doc.projections /\ Truthy(doc.projections[name])
    THEN doc.projections[name]
    ELSE initialState(name)

\* setUpdates of processStreamInTransaction: name -> folded state, or the
\* error of the first evolve that throws
SetUpdates(reg, doc, events) ==
    LET app == applicableProjections(reg, events)
        st(k) == Reduce(app[k].name, StartState(doc, app[k].name), events)
        bad == { k \in 1..Len(app) : ~st(k).ok }
    IN  IF bad # {}
        THEN st(CHOOSE k \in bad : \A j \in bad : k <= j)
        ELSE Ok([n \in { app[k].name : k \in 1..Len(app) } |->
                  st(CHOOSE k \in 1..Len(app) : app[k].name = n).v])

\* $set of the second findOneAndUpdate
SetProjections(doc, updates) ==
    [doc EXCEPT !.projections =
        [n \in DOMAIN @ \cup DOMAIN updates |->
            IF n \in DOMAIN updates THEN updates[n] ELSE @[n]]]

----
\* The database as a transaction sees it.

\* a transaction's view: its snapshot overlaid with its own writes
ViewOf(docs, w) ==
    [r \in (1..Len(docs)) \cup DOMAIN w |->
        IF r \in DOMAIN w THEN w[r] ELSE docs[r]]

Matches(view, coll, streamSubject) ==
    { r \in DOMAIN view :
        /\ view[r].live
        /\ view[r].coll = coll
        /\ view[r].doc.streamSubject = streamSubject }

\* the document a filter { streamSubject } selects: the first match in
\* record-id order, 0 when none matches
FindOne(view, coll, streamSubject) ==
    LET m == Matches(view, coll, streamSubject)
    IN  IF m = {} THEN 0 ELSE CHOOSE r \in m : \A q \in m : r <= q

\* a write to record r conflicts when r changed after the snapshot or is
\* held by another open transaction
WriteConflict(c, r, snap) ==
    \/ r <= Len(snap.docs) /\ db[r] # snap.docs[r]
    \/ \E c2 \in Calls \ {c} : r \in DOMAIN writes[c2]

\* the implicit creation of a collection conflicts with its creation by
\* another transaction
CreateConflict(c, coll, snap) ==
    /\ coll \notin snap.colls \cup created[c]
    /\ \/ coll \in colls
       \/ \E c2 \in Calls \ {c} : coll \in created[c2]

\* a findOneAndUpdate run without the session: committed at once
DbAfterWriteNoSession(r, entry) ==
    IF r = 0 THEN Append(db, entry) ELSE [db EXCEPT ![r] = entry]

\* the committed store after a findOneAndUpdate run under the session
\* (r = 0: an insert, which takes the next record id): nothing of it is
\* committed yet
DbAfterWrite(r, entry) ==
    IF r = 0 THEN Append(db, NoDoc) ELSE db

NoSnapshot == [docs |-> <<>>, colls |-> {}]
NoResult == [live |-> FALSE]
NoOutcome == [kind |-> "none"]

\* a read that filters on the subject as given
ReadFromAsGiven(docs, subject) ==
    LET coll == getCollectionNameFromSubject(subject).v
        r == FindOne(docs, coll, subject)
    IN  IF r = 0 THEN [events |-> <<>>, streamExists |-> FALSE]
        ELSE [events |-> docs[r].doc.events, streamExists |-> TRUE]

\* getEventStreamBySubject over the committed documents docs: a findOne
\* outside any transaction
ReadFrom(docs, subject) ==
    LET streamSubject == getStreamSubjectFromSubject(subject).v
        coll == getCollectionNameFromSubject(streamSubject).v
        r == FindOne(docs, coll, streamSubject)
    IN  IF r = 0 THEN [events |-> <<>>, streamExists |-> FALSE]
        ELSE [events |-> docs[r].doc.events, streamExists |-> TRUE]

getEventStreamBySubject(subject) == ReadFrom(db, subject)

----
\* appendOrCreateStream, one step per await.

\* the snapshot is taken by the first operation of the transaction
SnapshotOf(c) ==
    IF idx[c] = 1 THEN [docs |-> db, colls |-> colls] ELSE snapshot[c]

\* the committed documents with the writes of call c applied
Merged(c) ==
    [r \in 1..Len(db) |->
        IF r \in DOMAIN writes[c] THEN writes[c][r] ELSE db[r]]

\* an abort that leaves the writes of call c in the store
AfterAbortKeepingWrites(c) ==
    [docs |-> Merged(c), colls |-> colls \cup created[c]]

\* the committed store once withTransaction has aborted call c
AfterAbort(c) == [docs |-> db, colls |-> colls]

\* the call throws: the transaction is aborted, the session ended; ops
\* are the findOneAndUpdate calls the bucket has made by then
FailWith(c, err, ops) ==
    /\ pc' = [pc EXCEPT ![c] = "failed"]
    /\ db' = AfterAbort(c).docs
    /\ colls' = AfterAbort(c).colls
    /\ outcome' = [outcome EXCEPT ![c] =
                     [kind |-> "error", err |-> err, step |-> pc[c],
                      at |-> idx[c]]]
    /\ writes' = [writes EXCEPT ![c] = EmptyMap]
    /\ created' = [created EXCEPT ![c] = {}]
    /\ snapshot' = [snapshot EXCEPT ![c] = NoSnapshot]
    /\ result' = [result EXCEPT ![c] = NoResult]
    /\ streamResults' = [streamResults EXCEPT ![c] = <<>>]
    /\ session' = [session EXCEPT ![c] = "ended"]
    /\ issued' = [issued EXCEPT ![c] = ops]
    /\ UNCHANGED <<uvars, hvars, projections, batch, eventGroups, idx,
                   attempts, dates, looped, wrapper>>

\* a throw that skips the finally block and leaves the session open
FailLeavingSession(c, err) ==
    /\ pc' = [pc EXCEPT ![c] = "failed"]
    /\ db' = AfterAbort(c).docs
    /\ colls' = AfterAbort(c).colls
    /\ outcome' = [outcome EXCEPT ![c] =
                     [kind |-> "error", err |-> err, step |-> pc[c],
                      at |-> idx[c]]]
    /\ writes' = [writes EXCEPT ![c] = EmptyMap]
    /\ created' = [created EXCEPT ![c] = {}]
    /\ snapshot' = [snapshot EXCEPT ![c] = NoSnapshot]
    /\ result' = [result EXCEPT ![c] = NoResult]
    /\ streamResults' = [streamResults EXCEPT ![c] = <<>>]
    /\ UNCHANGED <<uvars, hvars, projections, batch, eventGroups, idx,
                   attempts, session, issued, dates, looped, wrapper>>

\* the call throws with no further database operation
Fail(c, err) == FailWith(c, err, issued[c])

\* a check that forgets the length
IsEmptyBatchMissingOnly(arg) == ~arg.given

\* !events || events.length === 0
IsEmptyBatch(arg) == ~arg.given \/ Len(arg.events) = 0

\* the call throws before startSession
Reject(c, arg, err) ==
    /\ pc' = [pc EXCEPT ![c] = "failed"]
    /\ batch' = [batch EXCEPT ![c] = arg]
    /\ outcome' = [outcome EXCEPT ![c] =
                     [kind |-> "error", err |-> err, step |-> "invoke",
                      at |-> 0]]
    /\ UNCHANGED <<uvars, hvars, projections, db, colls, eventGroups, idx,
                   result, streamResults, snapshot, writes, created, attempts,
                   session, issued, dates, looped, wrapper>>

\* `dates` once processStreamInTransaction has been entered for bucket
\* number k of the groups, in run number `run` of the callback, and has
\* read `now`; it is not entered when getCollectionBySubject throws
DatesAfterEntering(c, run, groups, k) ==
    IF getCollectionNameFromSubject(groups[k].key).ok
    THEN Append(dates, <<c, run, k>>)
    ELSE dates

\* appendOrCreateStream is called with the argument arg: the empty-batch
\* check, the grouping, startSession and the start of
\* withTransaction
InvokeArg(c, arg) ==
    /\ pc[c] = "idle"
    /\ LET groups == groupEventsByStreamSubject(arg.events)
        IN  IF IsEmptyBatch(arg)
            THEN Reject(c, arg, "EmptyBatch")
            ELSE IF ~groups.ok
            THEN Reject(c, arg, groups.err)
            ELSE IF /\ Len(groups.v) = 1
                    /\ ~getCollectionNameFromSubject(groups.v[1].key).ok
            THEN Reject(c, arg, "InvalidSubjectFormatError")
            ELSE /\ pc' = [pc EXCEPT ![c] =
                             IF Len(groups.v) = 0 THEN "commit"
                             ELSE "upsert"]
                 /\ batch' = [batch EXCEPT ![c] = arg]
                 /\ eventGroups' = [eventGroups EXCEPT ![c] = groups.v]
                 /\ idx' = [idx EXCEPT ![c] = 1]
                 /\ attempts' = [attempts EXCEPT ![c] = 1]
                 /\ session' = [session EXCEPT ![c] = "open"]
                 /\ dates' = IF Len(groups.v) = 0 THEN dates
                             ELSE DatesAfterEntering(c, 1, groups.v, 1)
                 /\ UNCHANGED <<uvars, hvars, projections, db, colls, result,
                                streamResults, snapshot, writes, created,
                                outcome, issued, looped, wrapper>>

\* a caller passes a batch over the given templates; among idle calls the
\* lowest-numbered goes first
InvokeWith(c, templates) ==
    /\ pc[c] = "idle"
    /\ \A c2 \in Calls : c2 < c => pc[c2] # "idle"
    /\ \E arg \in ArgumentsOf(c, templates) : InvokeArg(c, arg)

\* a call made while other calls may be running
Invoke(c) == InvokeWith(c, ConcurrentTemplates)

\* a call made while no other call is running
InvokeAlone(c) ==
    /\ \A c2 \in Calls \ {c} : pc[c2] \in {"idle", "done", "failed"}
    /\ InvokeWith(c, Templates)

\* a call whose events carry subjects that did not pass createSubject
InvokeSubjects(c) ==
    /\ \A c2 \in Calls \ {c} : pc[c2] \in {"idle", "done", "failed"}
    /\ InvokeWith(c, SubjectTemplates)

\* a callback that reports a bad collection name as a storage error
CollectionErrorAsStorage(c) ==
    /\ pc[c] = "upsert"
    /\ ~getCollectionNameFromSubject(eventGroups[c][idx[c]].key).ok
    /\ Fail(c, "StorageError")

\* the multi-stream callback's getCollectionBySubject throws for the
\* bucket it has reached: the callback rejects, the transaction aborts
CollectionError(c) ==
    /\ pc[c] = "upsert"
    /\ ~getCollectionNameFromSubject(eventGroups[c][idx[c]].key).ok
    /\ Fail(c, getCollectionNameFromSubject(eventGroups[c][idx[c]].key).err)

\* the multi-stream path (the code after the shortcut) run on a batch
\* whose events all belong to one stream: startSession, withTransaction,
\* then the loop over the one-entry Map
InvokeLoopedArg(c, arg) ==
    /\ pc[c] = "idle"
    /\ ~IsEmptyBatch(arg)
    /\ LET groups == groupEventsByStreamSubject(arg.events)
       IN  /\ groups.ok
           /\ Len(groups.v) = 1
           /\ eventGroups' = [eventGroups EXCEPT ![c] = groups.v]
           /\ dates' = DatesAfterEntering(c, 1, groups.v, 1)
    /\ pc' = [pc EXCEPT ![c] = "upsert"]
    /\ batch' = [batch EXCEPT ![c] = arg]
    /\ idx' = [idx EXCEPT ![c] = 1]
    /\ attempts' = [attempts EXCEPT ![c] = 1]
    /\ session' = [session EXCEPT ![c] = "open"]
    /\ looped' = looped \cup {c}
    /\ UNCHANGED <<uvars, hvars, projections, db, colls, result, streamResults,
                   snapshot, writes, created, outcome, issued, wrapper>>

\* randomUUID() and new Date() of one run of processStreamInTransaction:
\* values no other run has, named by the call, the run of the callback
\* and the bucket; `dates` has the order in which the dates were read
randomUUID(c) == <<c, attempts[c], idx[c]>>
Now(c) == <<c, attempts[c], idx[c]>>

\* the first findOneAndUpdate of processStreamInTransaction succeeds
Upsert(c) ==
    /\ pc[c] = "upsert"
    /\ LET g == eventGroups[c][idx[c]]
           coll == getCollectionNameFromSubject(g.key).v
           snap == SnapshotOf(c)
           view == ViewOf(snap.docs, writes[c])
           r == FindOne(view, coll, g.key)
           rid == IF r = 0 THEN Len(db) + 1 ELSE r
           doc == UpsertDoc(r = 0, IF r = 0 THEN NoResult ELSE view[r].doc,
                            randomUUID(c), Now(c), g.key, g.events)
       IN  /\ getCollectionNameFromSubject(g.key).ok
           /\ IF r = 0 THEN ~CreateConflict(c, coll, snap)
                       ELSE ~WriteConflict(c, r, snap)
           /\ db' = DbAfterWrite(r, Entry(coll, doc))
           /\ created' = [created EXCEPT ![c] =
                            IF coll \in snap.colls THEN @ ELSE @ \cup {coll}]
           /\ writes' = [writes EXCEPT ![c] = (rid :> Entry(coll, doc)) @@ @]
           /\ result' = [result EXCEPT ![c] = doc]
           /\ snapshot' = [snapshot EXCEPT ![c] = snap]
    /\ pc' = [pc EXCEPT ![c] = "project"]
    /\ issued' = [issued EXCEPT ![c] = <<"upsert">>]
    /\ UNCHANGED <<uvars, hvars, projections, colls, batch, eventGroups, idx,
                   streamResults, attempts, session, outcome, dates, looped,
                   wrapper>>

\* the first findOneAndUpdate meets a write conflict: withTransaction
\* runs the callback again, or gives up once its retry window is over
UpsertConflict(c) ==
    /\ pc[c] = "upsert"
    /\ LET g == eventGroups[c][idx[c]]
           coll == getCollectionNameFromSubject(g.key).v
           snap == SnapshotOf(c)
           view == ViewOf(snap.docs, writes[c])
           r == FindOne(view, coll, g.key)
       IN  /\ getCollectionNameFromSubject(g.key).ok
           /\ IF r = 0 THEN CreateConflict(c, coll, snap)
                       ELSE WriteConflict(c, r, snap)
    /\ \E retry \in BOOLEAN :
        IF retry
        THEN /\ attempts[c] < MaxAttempts
             /\ attempts' = [attempts EXCEPT ![c] = @ + 1]
             /\ idx' = [idx EXCEPT ![c] = 1]
             /\ writes' = [writes EXCEPT ![c] = EmptyMap]
             /\ created' = [created EXCEPT ![c] = {}]
             /\ snapshot' = [snapshot EXCEPT ![c] = NoSnapshot]
             /\ result' = [result EXCEPT ![c] = NoResult]
             /\ streamResults' = [streamResults EXCEPT ![c] = <<>>]
             /\ issued' = [issued EXCEPT ![c] = <<"upsert">>]
             /\ dates' = DatesAfterEntering(c, attempts[c] + 1,
                                            eventGroups[c], 1)
             /\ UNCHANGED <<uvars, hvars, projections, db, colls, pc, batch,
                            eventGroups, session, outcome, looped, wrapper>>
        ELSE FailWith(c, "TransientTransactionError", <<"upsert">>)

\* the rest of the bucket: the projection fold and, with a non-empty
\* registry, the second findOneAndUpdate; then the next bucket
Project(c) ==
    /\ pc[c] = "project"
    /\ LET g == eventGroups[c][idx[c]]
           coll == getCollectionNameFromSubject(g.key).v
           view == ViewOf(snapshot[c].docs, writes[c])
           r == FindOne(view, coll, g.key)
           updates == SetUpdates(projections, result[c], g.events)
           doc == IF Len(projections) > 0
                  THEN SetProjections(view[r].doc, updates.v)
                  ELSE result[c]
           last == idx[c] = Len(eventGroups[c])
       IN  IF Len(projections) > 0 /\ ~updates.ok
           THEN Fail(c, updates.err)
           ELSE IF Len(projections) > 0 /\ r = 0
           THEN FailWith(c, "Failed to upsert or update stream",
                         Append(issued[c], "set"))
           ELSE /\ writes' = [writes EXCEPT ![c] =
                                IF Len(projections) > 0
                                THEN (r :> Entry(coll, doc)) @@ @ ELSE @]
                /\ db' = IF Len(projections) > 0
                         THEN DbAfterWrite(r, Entry(coll, doc)) ELSE db
                /\ streamResults' = [streamResults EXCEPT ![c] =
                                       Append(@, doc)]
                /\ result' = [result EXCEPT ![c] = NoResult]
                /\ idx' = [idx EXCEPT ![c] = IF last THEN @ ELSE @ + 1]
                /\ pc' = [pc EXCEPT ![c] =
                            IF last THEN "commit" ELSE "upsert"]
                /\ issued' = [issued EXCEPT ![c] =
                                IF Len(projections) > 0
                                THEN Append(@, "set") ELSE @]
                /\ dates' = IF last THEN dates
                            ELSE DatesAfterEntering(c, attempts[c],
                                                    eventGroups[c],
                                                    idx[c] + 1)
                /\ UNCHANGED <<uvars, hvars, projections, colls, batch,
                               eventGroups, snapshot, created, attempts,
                               session, outcome, looped, wrapper>>

\* a findOneAndUpdate fails with an error the driver does not retry
DriverError(c) ==
    /\ \/ /\ pc[c] = "upsert"
          /\ getCollectionNameFromSubject(eventGroups[c][idx[c]].key).ok
          /\ FailWith(c, "StorageError", <<"upsert">>)
       \/ /\ pc[c] = "project" /\ Len(projections) > 0
          /\ FailWith(c, "StorageError", Append(issued[c], "set"))

\* a result that counts the streams, not the events
AppendResultCountingStreams(c) ==
    [kind |-> "ok",
     streams |-> streamResults[c],
     totalEventsAppended |-> Len(streamResults[c]),
     streamSubjects |->
         [k \in 1..Len(eventGroups[c]) |-> eventGroups[c][k].key]]

\* the value appendOrCreateStream returns
AppendResult(c) ==
    [kind |-> "ok",
     streams |-> streamResults[c],
     totalEventsAppended |-> Len(batch[c].events),
     streamSubjects |->
         [k \in 1..Len(eventGroups[c]) |-> eventGroups[c][k].key]]

\* withTransaction commits; appendOrCreateStream returns its result
Commit(c) ==
    /\ pc[c] = "commit"
    /\ db' = Merged(c)
    /\ colls' = colls \cup created[c]
    /\ pc' = [pc EXCEPT ![c] = "done"]
    /\ outcome' = [outcome EXCEPT ![c] = AppendResult(c)]
    /\ writes' = [writes EXCEPT ![c] = EmptyMap]
    /\ created' = [created EXCEPT ![c] = {}]
    /\ snapshot' = [snapshot EXCEPT ![c] = NoSnapshot]
    /\ streamResults' = [streamResults EXCEPT ![c] = <<>>]
    /\ session' = [session EXCEPT ![c] = "ended"]
    /\ UNCHANGED <<uvars, hvars, projections, batch, eventGroups, idx, result,
                   attempts, issued, dates, looped, wrapper>>

\* commitTransaction ends without an acknowledgement: the server has
\* applied the commit or has not, and withTransaction cannot tell
CommitUnacknowledged(c) ==
    /\ pc[c] = "commit"
    /\ \E applied \in BOOLEAN :
        IF applied
        THEN /\ db' = Merged(c)
             /\ colls' = colls \cup created[c]
             /\ writes' = [writes EXCEPT ![c] = EmptyMap]
             /\ created' = [created EXCEPT ![c] = {}]
             /\ pc' = [pc EXCEPT ![c] = "commitApplied"]
        ELSE /\ pc' = [pc EXCEPT ![c] = "commitPending"]
             /\ UNCHANGED <<db, colls, writes, created>>
    /\ UNCHANGED <<uvars, hvars, projections, batch, eventGroups, idx, result,
                   streamResults, snapshot, attempts, session, outcome, issued,
                   dates, looped, wrapper>>

\* withTransaction sends commitTransaction again and it is acknowledged:
\* a commit the server had applied already is not applied again
Recommit(c) ==
    /\ pc[c] \in {"commitApplied", "commitPending"}
    /\ db' = Merged(c)
    /\ colls' = colls \cup created[c]
    /\ pc' = [pc EXCEPT ![c] = "done"]
    /\ outcome' = [outcome EXCEPT ![c] = AppendResult(c)]
    /\ writes' = [writes EXCEPT ![c] = EmptyMap]
    /\ created' = [created EXCEPT ![c] = {}]
    /\ snapshot' = [snapshot EXCEPT ![c] = NoSnapshot]
    /\ streamResults' = [streamResults EXCEPT ![c] = <<>>]
    /\ session' = [session EXCEPT ![c] = "ended"]
    /\ UNCHANGED <<uvars, hvars, projections, batch, eventGroups, idx, result,
                   attempts, issued, dates, looped, wrapper>>

\* no acknowledgement arrives before withTransaction's retry window is
\* over: it throws the commit's error, the session is ended
CommitTimeout(c) ==
    /\ pc[c] \in {"commitApplied", "commitPending"}
    /\ Fail(c, "UnknownTransactionCommitResult")

----
\* MongoClientWrapper: the constructor starts connect() and does not
\* await it; one step per await of connect(), attemptConnection(),
\* waitForConnection() and close().

\* close() calls made on one wrapper
MaxCloses == 1

\* config.maxRetries ?? 3 and config.retryDelayMs ?? 1000
DefaultMaxRetries == 3
DefaultRetryDelayMs == 1000

\* the options a wrapper is constructed with; a field left out is undefined
WrapperConfigs ==
    { [connectionString |-> "uri"],
      [connectionString |-> "uri", maxRetries |-> 0],
      [connectionString |-> "uri", maxRetries |-> 1],
      [connectionString |-> "uri", maxRetries |-> 2, retryDelayMs |-> 10],
      [connectionString |-> "uri", retryDelayMs |-> 10] }

\* the wrapper when its constructor returns: connect() has run up to its
\* first await, the ping
Constructed(config) ==
    [config |-> config,
     maxRetries |-> IF "maxRetries" \in DOMAIN config
                    THEN config.maxRetries ELSE DefaultMaxRetries,
     retryDelayMs |-> IF "retryDelayMs" \in DOMAIN config
                      THEN config.retryDelayMs ELSE DefaultRetryDelayMs,
     retryCount |-> 0,
     isConnecting |-> FALSE,
     \* the field: "null", or "attempt" for the promise of
     \* attemptConnection()
     connectionPromise |-> "null",
     \* that promise: "none", "pending", "fulfilled" or "rejected"
     attempt |-> "none",
     \* where connect() is: "ping", "connect", "delay", "returned", "threw"
     connectPc |-> "ping",
     \* the client has a connection
     connected |-> FALSE,
     \* client.connect() calls made, and the delays waited, in order
     connects |-> 0,
     delays |-> <<>>,
     \* close(): "none" or "closing"; and the close() calls settled
     closePc |-> "none",
     closes |-> 0,
     \* waitForConnection(): "none", "awaiting", "resolved", "rejected"
     waitPc |-> "none",
     \* the ping or a client.connect() of connect() has succeeded
     succeeded |-> FALSE]

\* the wrapper of a store in use: the ping of connect() has succeeded
ConnectedWrapper ==
    [Constructed([connectionString |-> "uri"]) EXCEPT
        !.connectPc = "returned", !.connected = TRUE, !.succeeded = TRUE]

\* the head of the while loop of attemptConnection: the next
\* client.connect() is called, or the loop and with it connect() end
WhileHead(w) ==
    IF w.retryCount < w.maxRetries
    THEN [w EXCEPT !.connects = @ + 1, !.connectPc = "connect"]
    ELSE [w EXCEPT !.attempt = "fulfilled", !.isConnecting = FALSE,
                   !.connectPc = "returned"]

\* everything but the wrapper
storeVars == <<projections, db, colls, pc, batch, eventGroups, idx, result,
               streamResults, snapshot, writes, created, attempts, session,
               outcome, issued, dates, looped, hvars, uvars>>

\* the ping of connect() settles: connect() returns, or it starts
\* attemptConnection()
PingSettles ==
    /\ wrapper.connectPc = "ping"
    /\ \E ok \in BOOLEAN :
        wrapper' =
            IF ok
            THEN [wrapper EXCEPT !.connectPc = "returned",
                                 !.connected = TRUE,
                                 !.succeeded = TRUE]
            ELSE WhileHead([wrapper EXCEPT !.isConnecting = TRUE,
                                           !.connectionPromise = "attempt",
                                           !.attempt = "pending"])
    /\ UNCHANGED storeVars

\* client.connect() settles
ConnectSettles ==
    /\ wrapper.connectPc = "connect"
    /\ \E ok \in BOOLEAN :
        wrapper' =
            IF ok
            THEN [wrapper EXCEPT !.retryCount = 0, !.connected = TRUE,
                                 !.succeeded = TRUE,
                                 !.attempt = "fulfilled",
                                 !.isConnecting = FALSE,
                                 !.connectPc = "returned"]
            ELSE IF wrapper.retryCount + 1 >= wrapper.maxRetries
            THEN [wrapper EXCEPT !.retryCount = @ + 1,
                                 !.attempt = "rejected",
                                 !.isConnecting = FALSE,
                                 !.connectPc = "threw"]
            ELSE [wrapper EXCEPT
                    !.retryCount = @ + 1,
                    !.delays = Append(@, wrapper.retryDelayMs
                                           * (wrapper.retryCount + 1)),
                    !.connectPc = "delay"]
    /\ UNCHANGED storeVars

\* the delay is over: the loop goes on
DelayEnds ==
    /\ wrapper.connectPc = "delay"
    /\ wrapper' = WhileHead(wrapper)
    /\ UNCHANGED storeVars

\* waitForConnection() is called
WaitForConnection ==
    /\ wrapper.waitPc = "none"
    /\ wrapper' =
         IF wrapper.connectionPromise # "null"
         THEN [wrapper EXCEPT !.waitPc = "awaiting"]
         ELSE [wrapper EXCEPT !.waitPc = "resolved"]
    /\ UNCHANGED storeVars

\* the promise waitForConnection() awaits has settled
WaitSettles ==
    /\ wrapper.waitPc = "awaiting"
    /\ wrapper.attempt \in {"fulfilled", "rejected"}
    /\ wrapper' = [wrapper EXCEPT
                     !.waitPc = IF wrapper.attempt = "fulfilled"
                                THEN "resolved" ELSE "rejected"]
    /\ UNCHANGED storeVars

\* close() is called: client.close()
Close ==
    /\ wrapper.closePc = "none"
    /\ wrapper.closes < MaxCloses
    /\ wrapper' = [wrapper EXCEPT !.closePc = "closing",
                                  !.connected = FALSE]
    /\ UNCHANGED storeVars

\* client.close() settles: the finally block of close()
CloseSettles ==
    /\ wrapper.closePc = "closing"
    /\ wrapper' = [wrapper EXCEPT !.closePc = "none",
                                  !.closes = @ + 1,
                                  !.connectionPromise = "null",
                                  !.isConnecting = FALSE,
                                  !.retryCount = 0]
    /\ UNCHANGED storeVars

----
\* The database a store is constructed over: empty, or holding the
\* stream of SubjA as an earlier append of one "created" event left it.

SeedEvent == [id |-> <<0, 1>>, subject |-> SubjA, type |-> "created"]

SeedDoc(reg) ==
    LET d == UpsertDoc(TRUE, NoResult, <<0, 1, 1>>, <<0, 1, 1>>,
                       getStreamSubjectFromSubject(SubjA).v, <<SeedEvent>>)
    IN  IF Len(reg) > 0
        THEN SetProjections(d, SetUpdates(reg, d, <<SeedEvent>>).v)
        ELSE d

NoCall == [fn |-> "none"]
NoReturn == [kind |-> "none"]

\* no appendOrCreateStream and no handleCommand call has been made
NothingCalled ==
    /\ pc = [c \in Calls |-> "idle"]
    /\ batch = [c \in Calls |-> Missing]
    /\ eventGroups = [c \in Calls |-> <<>>]
    /\ idx = [c \in Calls |-> 1]
    /\ result = [c \in Calls |-> NoResult]
    /\ streamResults = [c \in Calls |-> <<>>]
    /\ snapshot = [c \in Calls |-> NoSnapshot]
    /\ writes = [c \in Calls |-> EmptyMap]
    /\ created = [c \in Calls |-> {}]
    /\ attempts = [c \in Calls |-> 0]
    /\ session = [c \in Calls |-> "none"]
    /\ outcome = [c \in Calls |-> NoOutcome]
    /\ issued = [c \in Calls |-> <<>>]
    /\ dates = <<>>
    /\ looped = {}
    /\ cmdPc = [h \in Calls |-> "idle"]
    /\ streams = [h \in Calls |-> <<>>]
    /\ streamIdx = [h \in Calls |-> 1]
    /\ aggregatedStreamStates = [h \in Calls |-> <<>>]
    /\ eventsToAppend = [h \in Calls |-> <<>>]
    /\ calls = [h \in Calls |-> <<>>]
    /\ newState = [h \in Calls |-> NoOutcome]

InitWith(registries, seedings) ==
    /\ projections \in registries
    /\ \E seeded \in seedings :
        /\ db = IF seeded
                THEN <<Entry(getCollectionNameFromSubject(SubjA).v,
                             SeedDoc(projections))>>
                ELSE <<>>
        /\ colls = IF seeded
                   THEN {getCollectionNameFromSubject(SubjA).v}
                   ELSE {}
    /\ NothingCalled
    /\ call = NoCall
    /\ ret = NoReturn
    /\ wrapper = ConnectedWrapper

\* a wrapper has been constructed
InitWrapper ==
    /\ projections = Registry
    /\ db = <<>>
    /\ colls = {}
    /\ NothingCalled
    /\ call = NoCall
    /\ ret = NoReturn
    /\ wrapper \in { Constructed(config) : config \in WrapperConfigs }

NextWrapper ==
    \/ PingSettles
    \/ ConnectSettles
    \/ DelayEnds
    \/ WaitForConnection
    \/ WaitSettles
    \/ Close
    \/ CloseSettles

SpecWrapper == InitWrapper /\ [][NextWrapper]_vars

\* concurrent calls on a store with the registry of two projections
Init == InitWith({Registry}, BOOLEAN)

Next ==
    \E c \in Calls :
        \/ Invoke(c)
        \/ Upsert(c)
        \/ UpsertConflict(c)
        \/ Project(c)
        \/ DriverError(c)
        \/ Commit(c)

Spec == Init /\ [][Next]_vars

\* calls made one after the other, on an empty database
InitAlone == InitWith({Registry}, {FALSE})

NextAlone ==
    \E c \in Calls :
        \/ InvokeAlone(c)
        \/ Upsert(c)
        \/ Project(c)
        \/ DriverError(c)
        \/ Commit(c)

SpecAlone == InitAlone /\ [][NextAlone]_vars

\* calls made one after the other with subjects of any shape
NextSubjects ==
    \E c \in Calls :
        \/ InvokeSubjects(c)
        \/ Upsert(c)
        \/ CollectionError(c)
        \/ Project(c)
        \/ DriverError(c)
        \/ Commit(c)

SpecSubjects == InitAlone /\ [][NextSubjects]_vars

\* (subject, type) of the events of callers whose "noted" events no
\* registered projection handles
WriteTemplates ==
    { [subject |-> SubjA, type |-> "created"],
      [subject |-> SubjA, type |-> "noted"],
      [subject |-> SubjB, type |-> "noted"] }

InvokeNoted(c) ==
    /\ \A c2 \in Calls \ {c} : pc[c2] \in {"idle", "done", "failed"}
    /\ InvokeWith(c, WriteTemplates)

\* calls made one after the other, with events no projection handles
NextWrites ==
    \E c \in Calls :
        \/ InvokeNoted(c)
        \/ Upsert(c)
        \/ Project(c)
        \/ DriverError(c)
        \/ Commit(c)

SpecWrites == InitAlone /\ [][NextWrites]_vars

\* (subject, type) of the events given to either path of
\* appendOrCreateStream
PathTemplates ==
    { [subject |-> SubjA, type |-> "created"],
      [subject |-> SubjA, type |-> "poison"],
      [subject |-> SubjNoColl, type |-> "created"] }

\* a call made while no other call is running
InvokePaths(c) ==
    /\ \A c2 \in Calls \ {c} : pc[c2] \in {"idle", "done", "failed"}
    /\ InvokeWith(c, PathTemplates)

\* such a call of the multi-stream path on the events of one stream
InvokeLooped(c) ==
    /\ \A c2 \in Calls \ {c} : pc[c2] \in {"idle", "done", "failed"}
    /\ \A c2 \in Calls : c2 < c => pc[c2] # "idle"
    /\ \E arg \in ArgumentsOf(c, PathTemplates) : InvokeLoopedArg(c, arg)

\* calls made one after the other, through the shortcut or the loop
NextPaths ==
    \E c \in Calls :
        \/ InvokePaths(c)
        \/ InvokeLooped(c)
        \/ Upsert(c)
        \/ CollectionError(c)
        \/ Project(c)
        \/ DriverError(c)
        \/ Commit(c)

SpecPaths == Init /\ [][NextPaths]_vars

\* (subject, type) of the events of callers whose calls end in every way
SessionTemplates ==
    { [subject |-> SubjA, type |-> "created"],
      [subject |-> SubjB, type |-> "poison"],
      [subject |-> SubjOne, type |-> "created"],
      [subject |-> SubjNoColl, type |-> "created"] }

InvokeSessions(c) ==
    /\ \A c2 \in Calls \ {c} : pc[c2] \in {"idle", "done", "failed"}
    /\ InvokeWith(c, SessionTemplates)

\* calls made one after the other that return or throw at every place
NextSessions ==
    \E c \in Calls :
        \/ InvokeSessions(c)
        \/ Upsert(c)
        \/ CollectionError(c)
        \/ Project(c)
        \/ DriverError(c)
        \/ Commit(c)
        \/ CommitUnacknowledged(c)
        \/ Recommit(c)
        \/ CommitTimeout(c)

SpecSessions == InitAlone /\ [][NextSessions]_vars

\* concurrent calls whose commits may go unacknowledged
NextCommits ==
    \E c \in Calls :
        \/ Invoke(c)
        \/ Upsert(c)
        \/ UpsertConflict(c)
        \/ Project(c)
        \/ DriverError(c)
        \/ Commit(c)
        \/ CommitUnacknowledged(c)
        \/ Recommit(c)
        \/ CommitTimeout(c)

SpecCommits == Init /\ [][NextCommits]_vars

----
\* Filters and their rewriting (utilsMongoFilter).  A JavaScript value is
\* a record tagged with its kind k; the entries of an object and the
\* items of an array are sequences.  A key is a sequence of tokens in
\* which "." separates the field names.

Num(n) == [k |-> "num", n |-> n]
Str(s) == [k |-> "str", s |-> s]
Flag(b) == [k |-> "bool", b |-> b]
DateOf(t) == [k |-> "date", t |-> t]
RegExpOf(re) == [k |-> "regexp", re |-> re]
List(items) == [k |-> "arr", items |-> items]
Obj(fields) == [k |-> "obj", fields |-> fields]
Field(key, value) == [key |-> <<key>>, value |-> value]

\* ['$and', '$or', '$nor'].includes(key), with '$and' alone
isLogicalOperatorAndOnly(key) == key = <<"$and">>

isLogicalOperator(key) == key \in {<<"$and">>, <<"$or">>, <<"$nor">>}

isFieldOperator(key) ==
    key \in {<<"$not">>, <<"$expr">>, <<"$jsonSchema">>, <<"$where">>}

isPlainObject(value) == value.k = "obj"

noTransformOps ==
    { <<op>> : op \in
        {"$eq", "$ne", "$gt", "$gte", "$lt", "$lte", "$in", "$nin",
         "$exists", "$type", "$size", "$regex", "$options", "$mod", "$all",
         "$bitsAllClear", "$bitsAllSet", "$bitsAnyClear", "$bitsAnySet"} }

requiresTransformation(operator) == operator \notin noTransformOps

\* `${nestedPath}.${key}`
PrefixKey(nestedPath, key) == nestedPath \o <<".">> \o key

RECURSIVE transformFilterForNestedPath(_, _)
RECURSIVE transformOperatorValue(_, _, _)

\* Object.entries of a Date or a RegExp is empty; a primitive, null or an
\* array is returned as it is
transformFilterForNestedPath(filter, nestedPath) ==
    IF filter.k \in {"date", "regexp"} THEN Obj(<<>>)
    ELSE IF filter.k # "obj" THEN filter
    ELSE Obj([i \in 1..Len(filter.fields) |->
        LET key == filter.fields[i].key
            value == filter.fields[i].value
        IN  IF isLogicalOperator(key)
            THEN [key |-> key,
                  value |->
                    IF value.k = "arr"
                    THEN List([j \in 1..Len(value.items) |->
                           transformFilterForNestedPath(value.items[j],
                                                        nestedPath)])
                    ELSE transformFilterForNestedPath(value, nestedPath)]
            ELSE IF isFieldOperator(key)
            THEN [key |-> key,
                  value |-> transformFilterForNestedPath(value, nestedPath)]
            ELSE [key |-> PrefixKey(nestedPath, key),
                  value |->
                    IF isPlainObject(value)
                    THEN transformOperatorValue(value, nestedPath, key)
                    ELSE value]])

transformOperatorValue(value, nestedPath, originalKey) ==
    IF ~isPlainObject(value) THEN value
    ELSE Obj([i \in 1..Len(value.fields) |->
        LET opKey == value.fields[i].key
            opValue == value.fields[i].value
        IN  IF \/ opKey \in {<<"$regex">>, <<"$options">>, <<"$elemMatch">>}
               \/ ~requiresTransformation(opKey)
            THEN [key |-> opKey, value |-> opValue]
            ELSE IF opValue.k = "arr"
            THEN [key |-> opKey,
                  value |-> List([j \in 1..Len(opValue.items) |->
                    IF isPlainObject(opValue.items[j])
                    THEN transformFilterForNestedPath(opValue.items[j],
                                                      nestedPath)
                    ELSE opValue.items[j]])]
            ELSE IF isPlainObject(opValue)
            THEN [key |-> opKey,
                  value |-> transformOperatorValue(opValue, nestedPath,
                                                   originalKey)]
            ELSE [key |-> opKey, value |-> opValue]])

\* `projections.${projectionName}`
SlotPath(projectionName) == <<"projections", ".", projectionName>>

NestedPaths == { SlotPath(Registry[k].name) : k \in 1..Len(Registry) }

\* the filters a caller writes against a projection's state, for which
\* the database's matching is modelled below
EvaluableFilters ==
    { Obj(<<>>),
      Obj(<<Field("a", Num(1))>>),
      Obj(<<Field("a", Num(1)), Field("b", Str("x"))>>),
      Obj(<<Field("a", Obj(<<Field("$gte", Num(2)),
                             Field("$lt", Num(3))>>))>>),
      Obj(<<Field("b", Obj(<<Field("$in", List(<<Str("x"), Str("y")>>))>>))>>),
      Obj(<<Field("a", Obj(<<Field("$not",
                                   Obj(<<Field("$gte", Num(2))>>))>>))>>),
      Obj(<<Field("d", Obj(<<Field("$exists", Flag(FALSE))>>))>>),
      Obj(<<Field("d", Obj(<<Field("$gte", DateOf(1))>>))>>),
      Obj(<<Field("$and",
                  List(<<Obj(<<Field("b", Str("x"))>>),
                        Obj(<<Field("a", Obj(<<Field("$gte",
                                                     Num(1))>>))>>)>>))>>),
      Obj(<<Field("$or",
                  List(<<Obj(<<Field("b", Str("x"))>>),
                        Obj(<<Field("$and",
                              List(<<Obj(<<Field("b", Str("y"))>>),
                                    Obj(<<Field("a",
                                      Obj(<<Field("$in",
                                        List(<<Num(2), Num(3)>>))>>))>>)
                                  >>))>>)>>)),
            Field("d", Obj(<<Field("$gte", DateOf(1))>>))>>),
      Obj(<<Field("$nor", List(<<Obj(<<Field("a", Num(1))>>),
                                Obj(<<Field("b", Str("y"))>>)>>))>>),
      Obj(<<Field("items",
                  Obj(<<Field("$elemMatch",
                        Obj(<<Field("type", Str("p")),
                              Field("price",
                                    Obj(<<Field("$gte", Num(1))>>))>>))
                      >>))>>),
      Obj(<<Field("items",
                  Obj(<<Field("$elemMatch",
                        Obj(<<Field("$or",
                              List(<<Obj(<<Field("type", Str("q"))>>),
                                    Obj(<<Field("price", Num(2))>>)>>))
                            >>))>>))>>),
      Obj(<<Field("addr", Obj(<<Field("city", Str("x"))>>))>>),
      Obj(<<[key |-> <<"addr", ".", "city">>, value |-> Str("x")]>>),
      Obj(<<Field("addr",
                  Obj(<<Field("tags",
                              List(<<Obj(<<Field("a", Num(1))>>)>>))>>))>>) }

\* filters whose matching is not modelled: geospatial operators, a
\* regular expression, an aggregation expression
OtherFilters ==
    { Obj(<<Field("items",
                  Obj(<<Field("$near",
                        Obj(<<Field("$geometry",
                              Obj(<<Field("type", Str("Point")),
                                    Field("coordinates",
                                          List(<<Num(0), Num(0)>>))>>)),
                              Field("$maxDistance", Num(5))>>))>>))>>),
      Obj(<<Field("addr",
                  Obj(<<Field("$geoWithin",
                        Obj(<<Field("$geometry",
                              Obj(<<Field("type", Str("Polygon")),
                                    Field("coordinates",
                                      List(<<List(<<List(<<Num(0), Num(1)>>),
                                                  List(<<Num(1), Num(1)>>)
                                                >>)>>))>>))>>))>>))>>),
      Obj(<<Field("addr",
                  Obj(<<Field("$geoIntersects",
                        Obj(<<Field("$geometry",
                              Obj(<<Field("type",
                                          Str("GeometryCollection")),
                                    Field("geometries",
                                      List(<<Obj(<<Field("type",
                                                        Str("Point")),
                                                  Field("coordinates",
                                                    List(<<Num(0), Num(0)>>))
                                                >>)>>))>>))>>))>>))>>),
      Obj(<<Field("$and",
                  List(<<Obj(<<Field("items",
                              Obj(<<Field("$not",
                                    Obj(<<Field("$elemMatch",
                                          Obj(<<Field("type", Str("p"))>>))
                                        >>))>>))>>)>>))>>),
      Obj(<<Field("b", RegExpOf("x"))>>),
      Obj(<<Field("b", Obj(<<Field("$regex", Str("x")),
                             Field("$options", Str("i"))>>))>>),
      Obj(<<Field("$expr",
                  Obj(<<Field("$gt", List(<<Str("$a"), Num(1)>>))>>))>>) }

QueryFilters == EvaluableFilters \cup OtherFilters

\* states of a projection, as objects
QueryStates ==
    { Obj(<<Field("a", Num(1)), Field("b", Str("x"))>>),
      Obj(<<Field("a", Num(2)), Field("b", Str("y")),
            Field("items", List(<<Obj(<<Field("type", Str("p")),
                                       Field("price", Num(2))>>)>>)),
            Field("d", DateOf(1))>>),
      Obj(<<Field("a", Num(3)),
            Field("addr", Obj(<<Field("city", Str("x"))>>)),
            Field("items", List(<<Obj(<<Field("type", Str("q")),
                                       Field("price", Num(0))>>)>>))>>),
      Obj(<<Field("a", Num(1)),
            Field("addr", Obj(<<Field("tags",
                                List(<<Obj(<<Field("a", Num(1))>>)>>))>>)),
            Field("d", DateOf(0))>>) }

\* the projections field of a stored document: no slot, the slot "log",
\* or both slots
SlotMaps ==
    {EmptyMap}
      \cup { [n \in {"log"} |-> st] : st \in QueryStates }
      \cup { [n \in {"log", "open"} |-> st] : st \in QueryStates }

\* a stored stream document with the given slots
QueryDoc(streamSubject, slots) ==
    [SeedDoc(<<>>) EXCEPT !.streamSubject = streamSubject,
                          !.projections = slots]

\* collections holding a document of u/1 and a document of u/2
QueryStores ==
    { <<Entry(getCollectionNameFromSubject(StreamA).v,
              QueryDoc(StreamA, s1)),
        Entry(getCollectionNameFromSubject(SubjB).v,
              QueryDoc(SubjB, s2))>> :
        s1 \in SlotMaps, s2 \in SlotMaps }

\* a stored document as the database matches it: the fields a filter of
\* the queries can name
FieldsOf(doc) ==
    LET names == SelectSeq(<<"log", "open">>,
                           LAMBDA n : n \in DOMAIN doc.projections)
    IN  Obj(<<Field("streamSubject", Str(doc.streamSubject)),
              Field("projections",
                    Obj([i \in 1..Len(names) |->
                           Field(names[i], doc.projections[names[i]])]))>>)

----
\* How the database matches a document against a filter: the part of the
\* query language that EvaluableFilters use.  Paths lead through embedded
\* documents; a condition on an array field holds when it holds for the
\* array or for one of its items.

MissingValue == [k |-> "missing"]

RECURSIVE NamesFrom(_, _, _)
NamesFrom(key, i, cur) ==
    IF i > Len(key) THEN <<cur>>
    ELSE IF key[i] = "." THEN <<cur>> \o NamesFrom(key, i + 1, <<>>)
    ELSE NamesFrom(key, i + 1, Append(cur, key[i]))

\* the field names of a dotted path
Names(key) == NamesFrom(key, 1, <<>>)

RECURSIVE Lookup(_, _)
\* the value of a document at a path of field names
Lookup(value, names) ==
    IF names = <<>> THEN value
    ELSE IF value.k # "obj" THEN MissingValue
    ELSE
        LET at == { i \in 1..Len(value.fields) :
                      value.fields[i].key = names[1] }
        IN  IF at = {} THEN MissingValue
            ELSE Lookup(value.fields[CHOOSE i \in at : TRUE].value,
                        Tail(names))

\* equality with a literal
EqualsLiteral(value, literal) ==
    \/ value = literal
    \/ /\ value.k = "arr"
       /\ \E i \in 1..Len(value.items) : value.items[i] = literal

\* an order comparison with an operand of the same type
Compares(value, op, operand) ==
    LET rank(x) == IF x.k = "num" THEN x.n ELSE x.t
        holds(x) ==
          /\ x.k = operand.k
          /\ x.k \in {"num", "date"}
          /\ CASE op = <<"$gt">> -> rank(x) > rank(operand)
               [] op = <<"$gte">> -> rank(x) >= rank(operand)
               [] op = <<"$lt">> -> rank(x) < rank(operand)
               [] op = <<"$lte">> -> rank(x) <= rank(operand)
    IN  \/ holds(value)
        \/ /\ value.k = "arr"
           /\ \E i \in 1..Len(value.items) : holds(value.items[i])

\* an object all of whose keys are operators
IsOperatorObject(cond) ==
    /\ cond.k = "obj"
    /\ Len(cond.fields) > 0
    /\ \A i \in 1..Len(cond.fields) :
         \/ cond.fields[i].key \in noTransformOps
         \/ cond.fields[i].key \in {<<"$not">>, <<"$elemMatch">>}

RECURSIVE MatchesFilter(_, _)
RECURSIVE MatchesCondition(_, _)

\* the value of a field satisfies the condition a filter gives for it
MatchesCondition(value, cond) ==
    IF ~IsOperatorObject(cond) THEN EqualsLiteral(value, cond)
    ELSE \A i \in 1..Len(cond.fields) :
        LET op == cond.fields[i].key
            operand == cond.fields[i].value
        IN  CASE op = <<"$eq">> -> EqualsLiteral(value, operand)
              [] op = <<"$ne">> -> ~EqualsLiteral(value, operand)
              [] op \in {<<"$gt">>, <<"$gte">>, <<"$lt">>, <<"$lte">>} ->
                   Compares(value, op, operand)
              [] op = <<"$in">> ->
                   \E j \in 1..Len(operand.items) :
                       EqualsLiteral(value, operand.items[j])
              [] op = <<"$nin">> ->
                   ~\E j \in 1..Len(operand.items) :
                       EqualsLiteral(value, operand.items[j])
              [] op = <<"$exists">> -> (value # MissingValue) = operand.b
              [] op = <<"$not">> -> ~MatchesCondition(value, operand)
              [] op = <<"$elemMatch">> ->
                   /\ value.k = "arr"
                   /\ \E j \in 1..Len(value.items) :
                        /\ value.items[j].k = "obj"
                        /\ MatchesFilter(value.items[j], operand)

\* the document is selected by the filter
MatchesFilter(doc, filter) ==
    \A i \in 1..Len(filter.fields) :
        LET key == filter.fields[i].key
            value == filter.fields[i].value
        IN  CASE key = <<"$and">> ->
                   \A j \in 1..Len(value.items) :
                       MatchesFilter(doc, value.items[j])
              [] key = <<"$or">> ->
                   \E j \in 1..Len(value.items) :
                       MatchesFilter(doc, value.items[j])
              [] key = <<"$nor">> ->
                   ~\E j \in 1..Len(value.items) :
                       MatchesFilter(doc, value.items[j])
              [] OTHER -> MatchesCondition(Lookup(doc, Names(key)), value)

----
\* Calls of the utility functions, each on arguments drawn at the start.

\* the store as a utility call finds it
InitUtil(utilCalls, stores) ==
    /\ projections = Registry
    /\ db \in stores
    /\ colls = { db[r].coll : r \in 1..Len(db) }
    /\ NothingCalled
    /\ call \in utilCalls
    /\ ret = NoReturn
    /\ wrapper = ConnectedWrapper

\* the call returns or throws r
Return(r) ==
    /\ ret = NoReturn
    /\ ret' = r
    /\ UNCHANGED <<call, hvars, projections, db, colls, pc, batch, eventGroups,
                   idx, result, streamResults, snapshot, writes, created,
                   attempts, session, outcome, issued, dates, looped, wrapper>>

\* longest string handed to createSubject
MaxSubjectLen == 5

\* the characters of the strings handed to createSubject
SubjectAlphabet == {"u", "U", "1", "-", "/", "_"}

\* the i flag: a letter is compared in lower case
LowerOf(ch) == IF ch = "U" THEN "u" ELSE ch

\* [a-z0-9-] under the i flag
InClass(ch) == LowerOf(ch) \in SegmentChars

RECURSIVE StreamSubjectRegexRun(_, _, _)
\* STREAM_SUBJECT_REGEX = /^[a-z0-9-]+\/[a-z0-9-]+$/i, read from s[i] on
StreamSubjectRegexRun(s, i, at) ==
    IF i > Len(s) THEN at = "second"
    ELSE IF InClass(s[i])
    THEN StreamSubjectRegexRun(s, i + 1,
             IF at \in {"start", "first"} THEN "first" ELSE "second")
    ELSE IF s[i] = "/" /\ at = "first"
    THEN StreamSubjectRegexRun(s, i + 1, "slash")
    ELSE FALSE

StreamSubjectRegexTest(s) == StreamSubjectRegexRun(s, 1, "start")

RECURSIVE SubjectRegexRun(_, _, _)
\* SUBJECT_REGEX = /^[a-z0-9-]+(?:\/[a-z0-9-]+)+$/i, read from s[i] on:
\* `at` is "start", "first" (in the first segment), "slash" (after a
\* '/') or "later" (in a segment after the first)
SubjectRegexRun(s, i, at) ==
    IF i > Len(s) THEN at = "later"
    ELSE IF InClass(s[i])
    THEN SubjectRegexRun(s, i + 1,
             IF at \in {"start", "first"} THEN "first" ELSE "later")
    ELSE IF s[i] = "/" /\ at \in {"first", "later"}
    THEN SubjectRegexRun(s, i + 1, "slash")
    ELSE FALSE

\* SUBJECT_REGEX.test(subject)
SubjectRegexTest(s) == SubjectRegexRun(s, 1, "start")

\* !subject || !SUBJECT_REGEX.test(subject)
createSubject(subject) ==
    IF Len(subject) = 0 \/ ~SubjectRegexTest(subject)
    THEN Throw("InvalidSubjectFormatError")
    ELSE Ok(subject)

SubjectCalls ==
    { [fn |-> "createSubject", subject |-> s] :
        s \in UNION { [1..n -> SubjectAlphabet] : n \in 0..MaxSubjectLen } }

CreateSubject ==
    /\ call.fn = "createSubject"
    /\ Return(createSubject(call.subject))

SpecSubject == InitUtil(SubjectCalls, {<<>>}) /\ [][CreateSubject]_vars

\* (subject, type) of the events handed to groupEventsByStreamSubject
GroupTemplates ==
    { [subject |-> SubjA, type |-> "created"],
      [subject |-> SubjB, type |-> "created"],
      [subject |-> StreamA, type |-> "updated"],
      [subject |-> SubjOne, type |-> "created"] }

GroupCalls ==
    { [fn |-> "groupEventsByStreamSubject", events |-> b] :
        b \in BatchesOf(1, GroupTemplates) }

GroupEvents ==
    /\ call.fn = "groupEventsByStreamSubject"
    /\ Return(groupEventsByStreamSubject(call.events))

SpecGroup == InitUtil(GroupCalls, {<<>>}) /\ [][GroupEvents]_vars

\* transformFilterForNestedPath is called with a filter and the path of a
\* projection slot
FilterCalls ==
    { [fn |-> "transformFilterForNestedPath", filter |-> f,
       nestedPath |-> p] : f \in QueryFilters, p \in NestedPaths }

TransformFilter ==
    /\ call.fn = "transformFilterForNestedPath"
    /\ Return(Ok(transformFilterForNestedPath(call.filter, call.nestedPath)))

SpecFilter == InitUtil(FilterCalls, QueryStores) /\ [][TransformFilter]_vars

\* findOneProjection (utilsProjections).

\* a query without projectionQuery
NoQuery == [k |-> "undefined"]

\* null, as findOne returns it when no document matches
Null == [k |-> "null"]

\* the array `filters` handed to $and
findOneProjectionFilters(streamSubject, query) ==
    LET filters ==
          << Obj(<<Field("streamSubject",
                         Obj(<<Field("$eq", Str(streamSubject))>>))>>),
             Obj(<<[key |-> SlotPath(query.projectionName),
                    value |-> Obj(<<Field("$exists", Flag(TRUE))>>)]>>) >>
    IN  IF query.projectionQuery # NoQuery
        THEN LET queryTransfomed ==
                   transformFilterForNestedPath(
                       query.projectionQuery,
                       SlotPath(query.projectionName))
                 pushed == Append(filters, queryTransfomed)
             IN  IF query.matchAll THEN Tail(pushed) ELSE pushed
        ELSE filters

\* collection.findOne(filter): the first matching document, or null
FindOneMatching(docs, coll, filter) ==
    LET hits == { r \in 1..Len(docs) :
                    /\ docs[r].live
                    /\ docs[r].coll = coll
                    /\ MatchesFilter(FieldsOf(docs[r].doc), filter) }
    IN  IF hits = {} THEN Null
        ELSE docs[CHOOSE r \in hits : \A q \in hits : r <= q].doc

findOneProjection(docs, streamSubject, query) ==
    LET coll == getCollectionNameFromSubject(streamSubject)
        filters == findOneProjectionFilters(streamSubject, query)
    IN  IF ~coll.ok THEN coll
        ELSE Ok(FindOneMatching(docs, coll.v,
                                Obj(<<Field("$and", List(filters))>>)))

\* a stream subject of the collection for which nothing is stored
SubjNone == <<"u", "/", "x">>

FindCalls ==
    { [fn |-> "findOneProjection", streamSubject |-> x,
       query |-> [projectionName |-> Registry[n].name,
                  projectionQuery |-> f,
                  matchAll |-> m]] :
        x \in {StreamA, SubjB, SubjNone}, n \in 1..Len(Registry),
        f \in {NoQuery} \cup EvaluableFilters, m \in BOOLEAN }

FindOneProjection ==
    /\ call.fn = "findOneProjection"
    /\ Return(findOneProjection(db, call.streamSubject, call.query))

SpecFind == InitUtil(FindCalls, QueryStores) /\ [][FindOneProjection]_vars

----
\* aggregateStream and handleCommand.

\* longest options.streams of a handleCommand call
MaxStreams == 2

\* the folds a caller passes: "tally" counts the events and lists their
\* ids; "types" starts from a state that is not empty and lists types
AggInitial(agg) ==
    IF agg = "tally" THEN [count |-> 0, events |-> <<>>]
    ELSE [count |-> 1, events |-> <<"none">>]

AggEvolve(agg, state, event) ==
    [count |-> state.count + 1,
     events |-> Append(state.events,
                       IF agg = "tally" THEN event.id ELSE event.type)]

RECURSIVE AggReduce(_, _, _)
\* events.reduce((state, event) => evolve(state, event), initialState())
AggReduce(agg, state, events) ==
    IF events = <<>> THEN state
    ELSE AggReduce(agg, AggEvolve(agg, state, Head(events)), Tail(events))

\* a fold that walks the events from the last to the first
aggregateStreamBackwards(docs, subject, agg) ==
    AggReduce(agg, AggInitial(agg), Reverse(ReadFrom(docs, subject).events))

\* aggregateStream over the committed documents docs; `events` is an
\* array, so `!events` is false
aggregateStream(docs, subject, agg) ==
    AggReduce(agg, AggInitial(agg), ReadFrom(docs, subject).events)

\* the entries of options.streams
StreamConfigs ==
    { [streamSubject |-> SubjA, agg |-> "tally"],
      [streamSubject |-> SubjA, agg |-> "types"],
      [streamSubject |-> StreamA, agg |-> "types"],
      [streamSubject |-> SubjB, agg |-> "tally"] }

DeclaredStreams ==
    UNION { [1..n -> StreamConfigs] : n \in 0..MaxStreams }

\* the handleCommand invocation that is looked at when there is one
HCall == NumCalls

Command == [type |-> "command"]

\* a value that is not an event: undefined
Undefined == [undefined |-> TRUE]

\* what commandHandlerFunction may resolve to in invocation h: one event,
\* an array of events, or a value that is neither
HandlerResults(h) ==
    { [array |-> FALSE,
       event |-> createDomainEvent(h, 1, [subject |-> SubjA,
                                          type |-> "created"])],
      [array |-> FALSE,
       event |-> createDomainEvent(h, 1, [subject |-> SubjB,
                                          type |-> "created"])],
      [array |-> TRUE, events |-> <<>>],
      [array |-> TRUE,
       events |-> <<createDomainEvent(h, 1, [subject |-> SubjB,
                                             type |-> "created"]),
                    createDomainEvent(h, 2, [subject |-> SubjA,
                                             type |-> "created"])>>],
      [array |-> FALSE, event |-> Undefined] }

\* a conversion that keeps the first event only
ToArrayOfFirst(res) ==
    IF ~res.array THEN <<res.event>>
    ELSE IF res.events = <<>> THEN <<>>
    ELSE <<res.events[1]>>

\* a conversion that keeps the events of the streams in options.streams
ToArrayOfDeclared(res) ==
    LET all == IF res.array THEN res.events ELSE <<res.event>>
        h == CHOOSE q \in Calls : cmdPc[q] = "handle"
        declared == { getStreamSubjectFromSubject(
                          streams[h][i].streamSubject).v :
                        i \in 1..Len(streams[h]) }
    IN  SelectSeq(all, LAMBDA e :
            \/ "subject" \notin DOMAIN e
            \/ getStreamSubjectFromSubject(e.subject).v \in declared)

\* a conversion that hands an array over back to front
ToArrayReversed(res) ==
    IF res.array THEN Reverse(res.events) ELSE <<res.event>>

\* Array.isArray(result) ? result : [result]
ToArray(res) == IF res.array THEN res.events ELSE <<res.event>>

\* a Map.set that adds every key anew
MapSetAppending(map, key, value) ==
    Append(map, [key |-> key, value |-> value])

\* Map.prototype.set: a Map is its entries in insertion order
MapSet(map, key, value) ==
    IF \E k \in 1..Len(map) : map[k].key = key
    THEN [k \in 1..Len(map) |->
            IF map[k].key = key THEN [key |-> key, value |-> value]
            ELSE map[k]]
    ELSE Append(map, [key |-> key, value |-> value])

\* (subject, type) of the events of the caller beside handleCommand
OtherTemplates == { [subject |-> SubjA, type |-> "created"] }

UnchangedStore ==
    UNCHANGED <<uvars, projections, db, colls, pc, batch, eventGroups, idx,
                result, streamResults, snapshot, writes, created, attempts,
                session, outcome, issued, dates, looped, wrapper>>

\* handleCommand is called with options.streams, one of declarations
HandleCommandWith(h, declarations) ==
    /\ cmdPc[h] = "idle"
    /\ \E declared \in declarations :
        /\ streams' = [streams EXCEPT ![h] = declared]
        /\ cmdPc' = [cmdPc EXCEPT ![h] =
                       IF Len(declared) = 0 THEN "handle" ELSE "aggregate"]
    /\ UNCHANGED <<streamIdx, aggregatedStreamStates, eventsToAppend,
                   calls, newState>>
    /\ UnchangedStore

HandleCommand(h) == HandleCommandWith(h, DeclaredStreams)

\* one turn of the loop: await eventStore.aggregateStream(...), then
\* aggregatedStreamStates.set(...)
AggregateStep(h) ==
    /\ cmdPc[h] = "aggregate"
    /\ LET stream == streams[h][streamIdx[h]]
           state == aggregateStream(db, stream.streamSubject, stream.agg)
       IN  /\ aggregatedStreamStates' =
                [aggregatedStreamStates EXCEPT ![h] =
                   MapSet(@, stream.streamSubject, state)]
           /\ calls' = [calls EXCEPT ![h] = Append(@,
                  [op |-> "aggregateStream",
                   streamSubject |-> stream.streamSubject,
                   agg |-> stream.agg,
                   read |-> getEventStreamBySubject(stream.streamSubject),
                   state |-> state])]
    /\ streamIdx' = [streamIdx EXCEPT ![h] = @ + 1]
    /\ cmdPc' = [cmdPc EXCEPT ![h] =
                   IF streamIdx[h] = Len(streams[h]) THEN "handle"
                   ELSE "aggregate"]
    /\ UNCHANGED <<streams, eventsToAppend, newState>>
    /\ UnchangedStore

\* await commandHandlerFunction({ command, states })
HandlerStep(h) ==
    /\ cmdPc[h] = "handle"
    /\ \E res \in HandlerResults(h) :
        /\ eventsToAppend' = [eventsToAppend EXCEPT ![h] = ToArray(res)]
        /\ calls' = [calls EXCEPT ![h] = Append(@,
               [op |-> "commandHandlerFunction",
                command |-> Command,
                states |-> aggregatedStreamStates[h],
                result |-> res])]
    /\ cmdPc' = [cmdPc EXCEPT ![h] = "append"]
    /\ UNCHANGED <<streams, streamIdx, aggregatedStreamStates, newState>>
    /\ UnchangedStore

\* the error a commandHandlerFunction throws, or rejects with
HandlerError == "HandlerError"

\* a handleCommand that catches the handler's error and goes on
HandlerThrowsSwallowed(h) ==
    /\ cmdPc[h] = "handle"
    /\ calls' = [calls EXCEPT ![h] = Append(@,
           [op |-> "commandHandlerFunction",
            command |-> Command,
            states |-> aggregatedStreamStates[h],
            result |-> [thrown |-> HandlerError]])]
    /\ eventsToAppend' = [eventsToAppend EXCEPT ![h] = <<>>]
    /\ cmdPc' = [cmdPc EXCEPT ![h] = "append"]
    /\ UNCHANGED <<streams, streamIdx, aggregatedStreamStates, newState>>
    /\ UnchangedStore

\* await commandHandlerFunction({ command, states }) throws: handleCommand
\* rejects with the error
HandlerThrows(h) ==
    /\ cmdPc[h] = "handle"
    /\ calls' = [calls EXCEPT ![h] = Append(@,
           [op |-> "commandHandlerFunction",
            command |-> Command,
            states |-> aggregatedStreamStates[h],
            result |-> [thrown |-> HandlerError]])]
    /\ newState' = [newState EXCEPT ![h] =
                      [kind |-> "error", err |-> HandlerError]]
    /\ cmdPc' = [cmdPc EXCEPT ![h] = "failed"]
    /\ UNCHANGED <<streams, streamIdx, aggregatedStreamStates,
                   eventsToAppend>>
    /\ UnchangedStore

\* eventStore.appendOrCreateStream(eventsToAppend) is called
AppendStep(h) ==
    /\ cmdPc[h] = "append"
    /\ InvokeArg(h, Given(eventsToAppend[h]))

\* the append has settled: handleCommand returns its result, or throws
\* what it threw
ReturnStep(h) ==
    /\ cmdPc[h] = "append"
    /\ pc[h] \in {"done", "failed"}
    /\ newState' = [newState EXCEPT ![h] = outcome[h]]
    /\ cmdPc' = [cmdPc EXCEPT ![h] =
                   IF pc[h] = "done" THEN "returned" ELSE "failed"]
    /\ UNCHANGED <<streams, streamIdx, aggregatedStreamStates,
                   eventsToAppend, calls>>
    /\ UnchangedStore

\* a caller beside handleCommand appends
InvokeOther(c) ==
    /\ c # HCall
    /\ InvokeWith(c, OtherTemplates)

NextCommand ==
    \/ HandleCommand(HCall)
    \/ AggregateStep(HCall)
    \/ HandlerStep(HCall)
    \/ HandlerThrows(HCall)
    \/ AppendStep(HCall)
    \/ ReturnStep(HCall)
    \/ \E c \in Calls :
        \/ InvokeOther(c)
        \/ Upsert(c)
        \/ UpsertConflict(c)
        \/ Project(c)
        \/ DriverError(c)
        \/ Commit(c)

SpecCommand == Init /\ [][NextCommand]_vars

\* options.streams of handleCommand invocations that work on one stream
RaceStreams ==
    { <<[streamSubject |-> SubjA, agg |-> "tally"]>>,
      <<[streamSubject |-> SubjB, agg |-> "tally"]>> }

HandleCommandRacing(h) == HandleCommandWith(h, RaceStreams)

\* handleCommand invocations that run at the same time
NextCommands ==
    \E h \in Calls :
        \/ HandleCommandRacing(h)
        \/ AggregateStep(h)
        \/ HandlerStep(h)
        \/ HandlerThrows(h)
        \/ AppendStep(h)
        \/ ReturnStep(h)
        \/ Upsert(h)
        \/ UpsertConflict(h)
        \/ Project(h)
        \/ DriverError(h)
        \/ Commit(h)

SpecCommands == Init /\ [][NextCommands]_vars

----
\* What the committed store shows of a call.

Live == { r \in 1..Len(db) : db[r].live }

IdsOf(events) == [i \in 1..Len(events) |-> events[i].id]

\* the events of call c among events, in their order
FromCall(c, events) == SelectSeq(events, LAMBDA e : e.id[1] = c)

\* the ids of call c's events in the "log" slot of a document
LoggedFromCall(c, doc) ==
    IF "log" \in DOMAIN doc.projections
    THEN SelectSeq(doc.projections["log"].v, LAMBDA id : id[1] = c)
    ELSE <<>>

\* nothing of call c is in the committed store
NoTrace(c) ==
    \A r \in Live :
        /\ FromCall(c, db[r].doc.events) = <<>>
        /\ LoggedFromCall(c, db[r].doc) = <<>>
        /\ db[r].doc.streamId[1] # c

\* every bucket of call c is in the committed store, in one document of
\* its stream subject, with the "log" slot folded over it
FullTrace(c) ==
    \A k \in 1..Len(eventGroups[c]) :
        \E r \in Live :
            /\ db[r].doc.streamSubject = eventGroups[c][k].key
            /\ FromCall(c, db[r].doc.events) = eventGroups[c][k].events
            /\ LoggedFromCall(c, db[r].doc) =
                 IdsOf(SelectSeq(eventGroups[c][k].events,
                                 LAMBDA e : e.type \in
                                     LogProjection.canHandle))

Succeeded(c) == outcome[c].kind = "ok"
Threw(c) == outcome[c].kind = "error"

----
\* C6: a collection holds at most one stream document per streamSubject,
\* also after concurrent calls that each create the same stream.
C6_OneDocumentPerSubject ==
    \A r1, r2 \in Live :
        /\ db[r1].coll = db[r2].coll
        /\ db[r1].doc.streamSubject = db[r2].doc.streamSubject
        => r1 = r2

----
\* C2: a call is all-or-nothing.  Once it has thrown, nothing of it is in
\* the committed store: no event of its batch, no document it created, no
\* slot folded over its events.  Once it has returned, every bucket and
\* its projection update are there.
C2_AllOrNothing ==
    \A c \in Calls :
        /\ Threw(c) => NoTrace(c)
        /\ Succeeded(c) => FullTrace(c)

\* a two-stream call has failed on the projection write of its second
\* bucket, and a two-stream call has returned
C2_Witness ==
    \E c, d \in Calls :
        /\ Threw(c)
        /\ outcome[c].err = "StorageError"
        /\ Len(eventGroups[c]) = 2
        /\ outcome[c].at = 2
        /\ outcome[c].step = "project"
        /\ Succeeded(d)
        /\ Len(eventGroups[d]) = 2

\* C3: in every state, whatever a reader finds of a call is the whole
\* call: if an event of it or a slot folded over it is committed, then
\* every bucket of it is, each with its "log" slot folded over the bucket.
C3_AtomicVisibility ==
    \A c \in Calls : NoTrace(c) \/ FullTrace(c)

\* a two-stream call has written its first bucket and not yet committed
C3_Witness ==
    \E c \in Calls :
        /\ pc[c] = "upsert"
        /\ idx[c] = 2
        /\ DOMAIN writes[c] # {}

C8_Contiguous ==
    \A r \in Live, c \in Calls :
        LET ev == db[r].doc.events
            own == SelectSeq(batch[c].events,
                     LAMBDA e : getStreamSubjectFromSubject(e.subject).v
                                  = db[r].doc.streamSubject)
        IN  FromCall(c, ev) # <<>> =>
                \E off \in 0..(Len(ev) - Len(own)) :
                    /\ SubSeq(ev, off + 1, off + Len(own)) = own
                    /\ \A i \in 1..Len(ev) :
                         ev[i].id[1] = c => i \in (off + 1)..(off + Len(own))

\* a document holds the first and third event of a call whose second
\* event went to another stream, next to the events of another call
C8_Witness ==
    \E r \in Live, c, d \in Calls :
        /\ c # d
        /\ FromCall(d, db[r].doc.events) # <<>>
        /\ IdsOf(FromCall(c, db[r].doc.events)) = <<<<c, 1>>, <<c, 3>>>>

----
\* The batch as the caller sees it, without the grouping map.

StreamSubjectOf(e) == getStreamSubjectFromSubject(e.subject).v

RECURSIVE FirstAppearance(_)
\* the distinct stream subjects of events, in order of first appearance
FirstAppearance(events) ==
    IF events = <<>> THEN <<>>
    ELSE
        LET rest == FirstAppearance(SubSeq(events, 1, Len(events) - 1))
            s == StreamSubjectOf(events[Len(events)])
        IN  IF \E i \in 1..Len(rest) : rest[i] = s THEN rest
            ELSE Append(rest, s)

EventsFor(events, streamSubject) ==
    SelectSeq(events, LAMBDA e : StreamSubjectOf(e) = streamSubject)

EndsWith(q, tail) ==
    /\ Len(tail) <= Len(q)
    /\ SubSeq(q, Len(q) - Len(tail) + 1, Len(q)) = tail

Returns(c) == pc[c] = "commit" /\ pc'[c] = "done"

StreamSubjects ==
    { getStreamSubjectFromSubject(t.subject).v : t \in Templates }

\* the stored documents, whatever record ids were given up by aborts
StoredDocs(docs) ==
    [r \in { q \in 1..Len(docs) : docs[q].live } |-> docs[r]]

----
\* C1: when a call whose events all belong to one stream S returns, a
\* read of S gives the events read before followed by the batch in caller
\* order, with streamExists true; and no step other than a return changes
\* what a read of any stream gives, so the events read before the return
\* are those stored before the call.
C1_AppendThenRead ==
    [][/\ \A c \in Calls :
            (Returns(c) /\ Len(FirstAppearance(batch[c].events)) = 1) =>
                LET S == FirstAppearance(batch[c].events)[1]
                IN  ReadFrom(db', S) =
                      [events |-> ReadFrom(db, S).events \o batch[c].events,
                       streamExists |-> TRUE]
       /\ (\A c \in Calls : ~Returns(c)) =>
            \A S \in StreamSubjects : ReadFrom(db', S) = ReadFrom(db, S)
      ]_vars

\* a one-stream call has returned after appending to a stream that an
\* earlier call had created
C1_Witness ==
    \E c, d \in Calls :
        /\ c # d
        /\ Succeeded(c) /\ Succeeded(d)
        /\ Len(eventGroups[c]) = 1
        /\ getEventStreamBySubject(eventGroups[c][1].key).events =
             EventsFor(batch[d].events, eventGroups[c][1].key)
               \o batch[c].events
        /\ EventsFor(batch[d].events, eventGroups[c][1].key) # <<>>

\* an event on which the evolve of a registered projection throws
Throws(e) ==
    /\ e.type = "poison"
    /\ \E k \in 1..Len(projections) : "poison" \in projections[k].canHandle

\* C4: a call whose batch holds an event on which evolve throws changes
\* no stored document at any of its steps, the $push that precedes the
\* fold included, and never returns a result.
C4_EvolveThrowAborts ==
    [][\A c \in Calls :
          (/\ pc[c] \notin {"done", "failed"}
           /\ pc'[c] # "idle"
           /\ \E i \in 1..Len(batch'[c].events) :
                  Throws(batch'[c].events[i]))
          => /\ StoredDocs(db') = StoredDocs(db)
             /\ pc'[c] # "done"
      ]_vars

\* evolve has thrown on the second bucket of a call, after the first
\* bucket was pushed and projected, and a stream was stored before
C4_Witness ==
    \E c \in Calls :
        /\ Threw(c)
        /\ outcome[c].err = "EvolveError"
        /\ outcome[c].at = 2
        /\ Live # {}

\* C5: for every stored document and registered projection P, if every
\* event of the document has a type P handles, the slot of P is there and
\* is the left fold of P's evolve over the events from P's initialState().
C5_SlotsCoherent ==
    \A r \in Live :
        \A k \in 1..Len(projections) :
            LET P == projections[k]
                doc == db[r].doc
            IN  (\A i \in 1..Len(doc.events) :
                    doc.events[i].type \in P.canHandle)
                => /\ P.name \in DOMAIN doc.projections
                   /\ doc.projections[P.name] =
                        Reduce(P.name, initialState(P.name), doc.events).v

\* C9: the value a call returns has totalEventsAppended = |B|,
\* streamSubjects = the distinct stream subjects of B in order of first
\* appearance, and one stream per subject in that order: a document stored
\* at the return, whose events end with that stream's events of B and
\* whose "log" slot ends with their ids.
C9_AppendResult ==
    [][\A c \in Calls :
          Returns(c) =>
            LET o == outcome'[c]
                B == batch[c].events
                subjects == FirstAppearance(B)
            IN  /\ o.kind = "ok"
                /\ o.totalEventsAppended = Len(B)
                /\ o.streamSubjects = subjects
                /\ Len(o.streams) = Len(subjects)
                /\ \A k \in 1..Len(subjects) :
                     /\ o.streams[k].streamSubject = subjects[k]
                     /\ \E r \in 1..Len(db') :
                          db'[r].live /\ db'[r].doc = o.streams[k]
                     /\ EndsWith(o.streams[k].events,
                                 EventsFor(B, subjects[k]))
                     /\ "log" \in DOMAIN o.streams[k].projections
                     /\ EndsWith(o.streams[k].projections["log"].v,
                                 IdsOf(EventsFor(B, subjects[k])))
      ]_vars

\* a call has returned for a batch of three events whose second stream
\* subject appears between two events of the first
C9_Witness ==
    \E c \in Calls :
        /\ Succeeded(c)
        /\ outcome[c].totalEventsAppended = 3
        /\ outcome[c].streamSubjects =
             <<StreamSubjectOf([subject |-> SubjB]),
               StreamSubjectOf([subject |-> SubjA])>>
        /\ Len(outcome[c].streams[1].events) = 2

\* C10: a call with an empty or missing events array throws the
\* empty-batch error at once: no session, no run of the transaction
\* callback, and the store and every transaction as they were.
C10_EmptyBatchRejected ==
    [][\A c \in Calls :
          (pc[c] = "idle" /\ pc'[c] # "idle" /\ Len(batch'[c].events) = 0)
          => /\ pc'[c] = "failed"
             /\ outcome'[c].kind = "error"
             /\ outcome'[c].err = "EmptyBatch"
             /\ session'[c] = "none"
             /\ attempts'[c] = 0
             /\ db' = db /\ colls' = colls
             /\ writes' = writes /\ created' = created
      ]_vars

\* a call with an empty array has thrown while a stream was stored
C10_Witness ==
    \E c \in Calls :
        /\ Threw(c)
        /\ outcome[c].err = "EmptyBatch"
        /\ batch[c].given
        /\ session[c] = "none"
        /\ Live # {}

----
\* C11: a call whose batch holds an event with a malformed subject (one
\* that SUBJECT_REGEX rejects) throws InvalidSubjectFormatError in the step
\* that invokes it: no session, no transaction, no write, wherever the
\* event stands in the batch and however many streams the batch has.
C11_MalformedRejected ==
    [][\A c \in Calls :
          (/\ pc[c] = "idle" /\ pc'[c] # "idle"
           /\ \E i \in 1..Len(batch'[c].events) :
                  ~IsSubject(batch'[c].events[i].subject))
          => /\ pc'[c] = "failed"
             /\ outcome'[c].err = "InvalidSubjectFormatError"
             /\ session'[c] = "none"
             /\ attempts'[c] = 0
      ]_vars

----
IsPrefix(p, q) == Len(p) <= Len(q) /\ SubSeq(q, 1, Len(p)) = p

\* C12: no step deletes a stored stream document or moves it, and the
\* events it held before the step are a prefix of those it holds after;
\* so the events at any earlier state are a prefix of those at any later.
C12_AppendOnly ==
    [][\A r \in 1..Len(db) :
          db[r].live =>
            /\ r <= Len(db')
            /\ db'[r].live
            /\ db'[r].coll = db[r].coll
            /\ IsPrefix(db[r].doc.events, db'[r].doc.events)
      ]_vars

\* the stream that existed at the start has been appended to by both
\* calls, one after the other
C12_Witness ==
    \E r \in Live :
        /\ Len(db[r].doc.events) >= 3
        /\ db[r].doc.events[1] = SeedEvent
        /\ \A c \in Calls : FromCall(c, db[r].doc.events) # <<>>

----
\* C13: no step changes the streamId, the streamSubject or
\* metadata.createdAt of a stored document, and each is what the run of
\* the callback that created the document set: that run belongs to the
\* call whose events come first in the document.
C13_IdentityFixed ==
    [][/\ \A r \in 1..Len(db) :
            db[r].live =>
              /\ db'[r].doc.streamId = db[r].doc.streamId
              /\ db'[r].doc.streamSubject = db[r].doc.streamSubject
              /\ db'[r].doc.metadata.createdAt = db[r].doc.metadata.createdAt
       /\ \A r \in 1..Len(db') :
            db'[r].live =>
              /\ db'[r].doc.streamId[1] = db'[r].doc.events[1].id[1]
              /\ db'[r].doc.metadata.createdAt = db'[r].doc.streamId
              /\ db'[r].doc.streamSubject =
                   StreamSubjectOf(db'[r].doc.events[1])
      ]_vars

\* a call has appended to a document another call created, in the second
\* run of its transaction callback
C13_Witness ==
    \E r \in Live, c \in Calls :
        /\ Succeeded(c)
        /\ attempts[c] = 2
        /\ db[r].doc.streamId[1] # c
        /\ db[r].doc.metadata.updatedAt = <<c, 2, 1>>
        /\ db[r].doc.metadata.createdAt # db[r].doc.metadata.updatedAt

----
\* C14: every event of a stored document has the document's streamSubject
\* as its stream subject, and the document lies in the collection named
\* by the first segment of its streamSubject.
C14_SubjectsAgree ==
    \A r \in Live :
        /\ \A i \in 1..Len(db[r].doc.events) :
             getStreamSubjectFromSubject(db[r].doc.events[i].subject) =
               Ok(db[r].doc.streamSubject)
        /\ db[r].coll = Split(db[r].doc.streamSubject)[1]

\* two stream documents of one collection are stored, one of them holding
\* two events whose subject is longer than its stream subject
C14_Witness ==
    \E r1, r2 \in Live :
        /\ db[r1].doc.streamSubject # db[r2].doc.streamSubject
        /\ db[r1].coll = db[r2].coll
        /\ Len(db[r1].doc.events) >= 2
        /\ db[r1].doc.events[1].subject # db[r1].doc.streamSubject

----
\* the document of a stream as a reader finds it, or one without slots
DocOf(docs, streamSubject) ==
    LET r == FindOne(docs, getCollectionNameFromSubject(streamSubject).v,
                     streamSubject)
    IN  IF r = 0 THEN [projections |-> EmptyMap] ELSE docs[r].doc

Handled(P, events) == SelectSeq(events, LAMBDA e : e.type \in P.canHandle)

\* C15: when a call returns, for every stream bucket of it and every
\* registered projection that handles none of the bucket's event types,
\* the stream's slot of that projection is as it was before: absent if
\* it was absent, and the same value if it was present.
C15_OtherSlotsUntouched ==
    [][\A c \in Calls :
          Returns(c) =>
            \A k \in 1..Len(eventGroups[c]) :
                \A j \in 1..Len(projections) :
                    LET P == projections[j]
                        g == eventGroups[c][k]
                        before == DocOf(db, g.key).projections
                        after == DocOf(db', g.key).projections
                    IN  Handled(P, g.events) = <<>> =>
                          /\ P.name \in DOMAIN after
                               <=> P.name \in DOMAIN before
                          /\ P.name \in DOMAIN before =>
                               after[P.name] = before[P.name]
      ]_vars

\* a call has returned after appending only "updated" events to a stream
\* whose "log" slot an earlier call had written
C15_Witness ==
    \E c, d \in Calls :
        /\ c # d
        /\ Succeeded(c) /\ Succeeded(d)
        /\ Len(eventGroups[c]) = 1
        /\ EventTypesOf(eventGroups[c][1].events) = {"updated"}
        /\ LET doc == DocOf(db, eventGroups[c][1].key)
           IN  /\ "log" \in DOMAIN doc.projections
               /\ doc.projections["log"].v # <<>>
               /\ FromCall(d, doc.events) # <<>>
               /\ doc.events[Len(doc.events)].id[1] = c

----
\* C16: when a call returns, for every stream bucket of it and every
\* projection selected for the bucket, the stream's slot is the fold of
\* evolve over the events of the bucket whose type the projection
\* handles, in caller order, from the state the fold started with; evolve
\* was not run on the other events of the bucket.
C16_FoldOverApplicable ==
    [][\A c \in Calls :
          Returns(c) =>
            \A k \in 1..Len(eventGroups[c]) :
                \A j \in 1..Len(projections) :
                    LET P == projections[j]
                        g == eventGroups[c][k]
                        before == DocOf(db, g.key)
                        after == DocOf(db', g.key).projections
                    IN  Handled(P, g.events) # <<>> =>
                          /\ P.name \in DOMAIN after
                          /\ after[P.name] =
                               Reduce(P.name, StartState(before, P.name),
                                      Handled(P, g.events)).v
      ]_vars

----
RECURSIVE FoldLeft(_, _)
\* the left fold of a caller's evolve over events, from its initial state
FoldLeft(agg, events) ==
    IF events = <<>> THEN AggInitial(agg)
    ELSE AggEvolve(agg, FoldLeft(agg, SubSeq(events, 1, Len(events) - 1)),
                   events[Len(events)])

\* the stored documents of the stream a subject belongs to
DocsOfStream(subject) ==
    { r \in Live :
        /\ db[r].doc.streamSubject = Join(SubSeq(Split(subject), 1, 2))
        /\ db[r].coll = Split(subject)[1] }

Aggregates ==
    /\ cmdPc[HCall] = "aggregate"
    /\ Len(calls'[HCall]) = Len(calls[HCall]) + 1

\* C18: an aggregateStream call returns the left fold of evolve over the
\* events stored for the stream of its subject, in stored order, from
\* initialState(); initialState() itself when no document is stored for
\* it; and the call changes no document.
C18_AggregateFolds ==
    [][Aggregates =>
          LET e == calls'[HCall][Len(calls'[HCall])]
              docs == DocsOfStream(e.streamSubject)
          IN  /\ e.op = "aggregateStream"
              /\ IF docs = {} THEN e.state = AggInitial(e.agg)
                 ELSE \E r \in docs :
                        e.state = FoldLeft(e.agg, db[r].doc.events)
              /\ db' = db /\ colls' = colls /\ writes' = writes
      ]_vars

\* one aggregateStream call found no stream and another folded three
\* events or more
C18_Witness ==
    \E i, j \in 1..Len(calls[HCall]) :
        /\ calls[HCall][i].op = "aggregateStream"
        /\ ~calls[HCall][i].read.streamExists
        /\ calls[HCall][i].state = AggInitial(calls[HCall][i].agg)
        /\ calls[HCall][j].op = "aggregateStream"
        /\ calls[HCall][j].agg = "tally"
        /\ calls[HCall][j].state.count >= 3

ReadSubjects == {SubjA, StreamA, SubjB}

\* C19: in every state, a read gives the same result for subjects with
\* the same first two segments; the result is the events of a stored
\* document of that stream with streamExists true, or no events with
\* streamExists false when none is stored; and streamExists is true
\* exactly when an append to the stream has committed (the append that
\* left the seed document, or a call that has returned).
C19_ReadNormalizes ==
    /\ \A s1, s2 \in ReadSubjects :
         SubSeq(Split(s1), 1, 2) = SubSeq(Split(s2), 1, 2) =>
           getEventStreamBySubject(s1) = getEventStreamBySubject(s2)
    /\ \A s \in ReadSubjects :
         LET res == getEventStreamBySubject(s)
             docs == DocsOfStream(s)
         IN  /\ IF docs = {}
                THEN res = [events |-> <<>>, streamExists |-> FALSE]
                ELSE /\ res.streamExists
                     /\ \E r \in docs : res.events = db[r].doc.events
             /\ res.streamExists <=>
                  \/ \E r \in docs : db[r].doc.events[1] = SeedEvent
                  \/ \E c \in Calls :
                       /\ pc[c] = "done"
                       /\ \E k \in 1..Len(eventGroups[c]) :
                            eventGroups[c][k].key =
                              Join(SubSeq(Split(s), 1, 2))

\* the stream was read by its three-segment subject and by its stream
\* subject, after two appends to it had committed, and gave the same two
\* events or more
C19_Witness ==
    \E i, j \in 1..Len(calls[HCall]) :
        /\ calls[HCall][i].op = "aggregateStream"
        /\ calls[HCall][j].op = "aggregateStream"
        /\ calls[HCall][i].streamSubject = SubjA
        /\ calls[HCall][j].streamSubject = StreamA
        /\ calls[HCall][i].read = calls[HCall][j].read
        /\ Len(calls[HCall][i].read.events) >= 2
        /\ calls[HCall][i].read.streamExists

----
\* the state the latest aggregateStream call for a subject resolved to
LatestState(subject) ==
    LET at == { k \in 1..Len(calls[HCall]) :
                  /\ calls[HCall][k].op = "aggregateStream"
                  /\ calls[HCall][k].streamSubject = subject }
    IN  calls[HCall][CHOOSE k \in at : \A q \in at : q <= k].state

\* C20: handleCommand's calls are, in this order: one aggregateStream per
\* declared stream, in declared order; then one commandHandlerFunction
\* with the command and a Map that holds, for every declared stream
\* subject and nothing else, the state aggregated for it; then one
\* appendOrCreateStream with the handler's events as an array.  What it
\* returns is what that call returned; if that call threw, it throws.
C20_StepsInOrder ==
    LET made == calls[HCall]
        declared == streams[HCall]
        n == Len(declared)
    IN  /\ Len(made) <= n + 1
        /\ cmdPc[HCall] = "aggregate" =>
             /\ Len(made) = streamIdx[HCall] - 1
             /\ streamIdx[HCall] <= n
        /\ cmdPc[HCall] = "handle" => Len(made) = n
        /\ cmdPc[HCall] \in {"append", "returned", "failed"} =>
             Len(made) = n + 1
        /\ \A k \in 1..Len(made) :
             IF k <= n
             THEN /\ made[k].op = "aggregateStream"
                  /\ made[k].streamSubject = declared[k].streamSubject
                  /\ made[k].agg = declared[k].agg
             ELSE /\ made[k].op = "commandHandlerFunction"
                  /\ made[k].command = Command
                  /\ { made[k].states[i].key :
                         i \in 1..Len(made[k].states) }
                       = { declared[i].streamSubject : i \in 1..n }
                  /\ \A i, j \in 1..Len(made[k].states) :
                       made[k].states[i].key = made[k].states[j].key
                         => i = j
                  /\ \A i \in 1..Len(made[k].states) :
                       made[k].states[i].value =
                         LatestState(made[k].states[i].key)
        /\ pc[HCall] # "idle" =>
             /\ Len(made) = n + 1
             /\ batch[HCall].given
             /\ batch[HCall].events =
                  IF made[n + 1].result.array
                  THEN made[n + 1].result.events
                  ELSE <<made[n + 1].result.event>>
        /\ cmdPc[HCall] = "returned" =>
             newState[HCall] = outcome[HCall] /\ Succeeded(HCall)
        /\ cmdPc[HCall] = "failed" =>
             IF "thrown" \in DOMAIN made[n + 1].result
             THEN pc[HCall] = "idle"
             ELSE newState[HCall] = outcome[HCall] /\ Threw(HCall)

\* handleCommand has returned the result of a two-stream append, after
\* aggregating two streams of which one was appended to by another caller
C20_Witness ==
    /\ cmdPc[HCall] = "returned"
    /\ Len(streams[HCall]) = 2
    /\ streams[HCall][1].streamSubject # streams[HCall][2].streamSubject
    /\ Len(newState[HCall].streams) = 2
    /\ newState[HCall].totalEventsAppended = 2
    /\ \E c \in Calls \ {HCall} : Succeeded(c)
    /\ \E k \in 1..2 : calls[HCall][k].state.count >= 2

\* what the handler of invocation h resolved to
HandlerResult(h) == calls[h][Len(calls[h])].result

\* invocation h calls appendOrCreateStream in this step
CallsAppend(h) == cmdPc[h] = "append" /\ pc[h] = "idle" /\ pc'[h] # "idle"

\* C21: the argument handleCommand passes to appendOrCreateStream is the
\* handler's result made an array: a single event e is passed as [e], an
\* array is passed as it is, its events in the same order.
C21_ResultNormalized ==
    [][\A h \in Calls :
         CallsAppend(h) =>
           /\ batch'[h].given
           /\ HandlerResult(h).array =>
                batch'[h].events = HandlerResult(h).events
           /\ ~HandlerResult(h).array =>
                /\ Len(batch'[h].events) = 1
                /\ batch'[h].events[1] = HandlerResult(h).event]_vars

\* a handler returned one event, not in an array, and handleCommand has
\* returned the result of appending that one event
C21_Witness ==
    /\ cmdPc[HCall] = "returned"
    /\ ~HandlerResult(HCall).array
    /\ batch[HCall].events = <<HandlerResult(HCall).event>>
    /\ newState[HCall].totalEventsAppended = 1
    /\ \E r \in Live :
         \E i \in 1..Len(db[r].doc.events) :
           db[r].doc.events[i].id = HandlerResult(HCall).event.id

\* a value with the fields of a DomainEvent
IsEvent(v) == {"id", "subject", "type"} \subseteq DOMAIN v

\* the handler resolved to an event or to an array of events
IsEventOrEvents(res) ==
    IF res.array THEN \A i \in 1..Len(res.events) : IsEvent(res.events[i])
    ELSE IsEvent(res.event)

\* C22: when the handler resolves to a value that is neither an event nor
\* an array of events, handleCommand fails with InvalidHandlerResult and
\* appendOrCreateStream is not called.
C22_InvalidResultRejected ==
    \A h \in Calls :
        /\ cmdPc[h] \in {"append", "returned", "failed"}
        /\ "thrown" \notin DOMAIN HandlerResult(h)
        /\ ~IsEventOrEvents(HandlerResult(h))
        => /\ pc[h] = "idle"
           /\ cmdPc[h] # "returned"
           /\ cmdPc[h] = "failed" =>
                newState[h].err = "InvalidHandlerResult"

\* the streams invocation h declared in options.streams
DeclaredSubjects(h) ==
    { getStreamSubjectFromSubject(streams[h][i].streamSubject).v :
        i \in 1..Len(streams[h]) }

\* the events of the handler's result that belong to stream S are in a
\* stored document of S, in their order, and in handleCommand's result
AppendedTo(h, S) ==
    LET res == HandlerResult(h)
        all == IF res.array THEN res.events ELSE <<res.event>>
        own == EventsFor(all, S)
    IN  /\ \E r \in Live :
             /\ db[r].doc.streamSubject = S
             /\ FromCall(h, db[r].doc.events) = own
        /\ \E k \in 1..Len(newState[h].streams) :
             /\ newState[h].streams[k].streamSubject = S
             /\ EndsWith(newState[h].streams[k].events, own)

\* C23: options.streams does not limit what is written: when handleCommand
\* has returned, every event the handler returned is appended to the
\* stream of its own subject, whether that stream was declared or not.
C23_UndeclaredAppended ==
    \A h \in Calls :
        cmdPc[h] = "returned" =>
          LET res == HandlerResult(h)
              all == IF res.array THEN res.events ELSE <<res.event>>
          IN  \A i \in 1..Len(all) : AppendedTo(h, StreamSubjectOf(all[i]))

\* handleCommand has returned after its handler returned events of a
\* declared stream and of a stream that was not declared; both are stored
C23_Witness ==
    /\ cmdPc[HCall] = "returned"
    /\ HandlerResult(HCall).array
    /\ \E i, j \in 1..Len(HandlerResult(HCall).events) :
         LET ei == HandlerResult(HCall).events[i]
             ej == HandlerResult(HCall).events[j]
         IN  /\ StreamSubjectOf(ei) \in DeclaredSubjects(HCall)
             /\ StreamSubjectOf(ej) \notin DeclaredSubjects(HCall)
             /\ AppendedTo(HCall, StreamSubjectOf(ei))
             /\ AppendedTo(HCall, StreamSubjectOf(ej))

\* the aggregateStream calls invocation h made for stream S
AggregatedAt(h, S) ==
    { k \in 1..Len(calls[h]) :
        /\ calls[h][k].op = "aggregateStream"
        /\ getStreamSubjectFromSubject(calls[h][k].streamSubject).v = S }

\* the events invocation h appended to stream S
Own(h, S) == EventsFor(eventsToAppend[h], S)

\* the document of stream S in the result handleCommand returned to h
ReturnedEvents(h, S) ==
    LET k == CHOOSE q \in 1..Len(newState[h].streams) :
                 newState[h].streams[q].streamSubject = S
    IN  newState[h].streams[k].events

\* invocations g and h have both returned after appending to stream S,
\* which both had aggregated to the same state
RacedOn(g, h, S) ==
    /\ g # h
    /\ cmdPc[g] = "returned" /\ cmdPc[h] = "returned"
    /\ Own(g, S) # <<>> /\ Own(h, S) # <<>>
    /\ \E i \in AggregatedAt(g, S), j \in AggregatedAt(h, S) :
         calls[g][i].state = calls[h][j].state

\* C24: nothing guards an append by the version that was aggregated: when
\* two handleCommand invocations have aggregated the same state of a
\* stream and both have appended to it, neither was refused, and a read
\* of the stream ends with the batch of the one that committed first
\* followed by the batch of the one that committed second.
C24_StaleAppendsBothLand ==
    \A S \in StreamSubjects : \A g, h \in Calls :
        RacedOn(g, h, S) =>
          \E first, second \in {g, h} :
            /\ first # second
            /\ EndsWith(ReturnedEvents(first, S), Own(first, S))
            /\ EndsWith(ReturnedEvents(second, S),
                        Own(first, S) \o Own(second, S))
            /\ EndsWith(ReadFrom(db, S).events,
                        Own(first, S) \o Own(second, S))

\* C30: groupEventsByStreamSubject partitions its input: every event is
\* in exactly one bucket, the one keyed by the stream subject of its
\* subject; the keys come in order of first appearance in the input; and
\* a bucket holds its events in their input order.
C30_GroupingPartitions ==
    /\ call.fn = "groupEventsByStreamSubject"
    /\ ret # NoReturn
    /\ \A i \in 1..Len(call.events) :
         getStreamSubjectFromSubject(call.events[i].subject).ok
    => /\ ret.ok
       /\ [k \in 1..Len(ret.v) |-> ret.v[k].key]
            = FirstAppearance(call.events)
       /\ \A k \in 1..Len(ret.v) :
            ret.v[k].events = EventsFor(call.events, ret.v[k].key)
       /\ \A i \in 1..Len(call.events) :
            Cardinality({ k \in 1..Len(ret.v) :
                           \E j \in 1..Len(ret.v[k].events) :
                             ret.v[k].events[j] = call.events[i] }) = 1

\* three events of two streams, the second stream between two events of
\* the first, have been grouped
C30_Witness ==
    /\ call.fn = "groupEventsByStreamSubject"
    /\ ret # NoReturn /\ ret.ok
    /\ Len(call.events) = 3
    /\ Len(ret.v) = 2
    /\ ret.v[1].events = <<call.events[1], call.events[3]>>
    /\ ret.v[2].events = <<call.events[2]>>
    /\ call.events[1].subject # call.events[3].subject

\* the characters of [A-Za-z0-9-] among those of the strings
AllowedChars == {"u", "U", "1", "-"}

\* two or more segments separated by single '/', each of one or more
\* allowed characters
TwoOrMoreSegments(s) ==
    LET parts == Split(s)
    IN  /\ Len(parts) >= 2
        /\ \A k \in 1..Len(parts) :
             /\ parts[k] # <<>>
             /\ \A i \in 1..Len(parts[k]) : parts[k][i] \in AllowedChars

\* C29: createSubject(s) returns s when s is two or more non-empty
\* segments over [A-Za-z0-9-] separated by single '/', and throws
\* InvalidSubjectFormatError for every other string.
C29_CreateSubject ==
    call.fn = "createSubject" /\ ret # NoReturn =>
        IF TwoOrMoreSegments(call.subject)
        THEN ret = Ok(call.subject)
        ELSE ret = Throw("InvalidSubjectFormatError")

\* a subject of three segments with an upper-case letter and a hyphen
\* has been returned as it was given
C29_Witness ==
    /\ call.fn = "createSubject"
    /\ call.subject = <<"U", "/", "-", "/", "1">>
    /\ ret = Ok(call.subject)

\* the stored documents that have an object at the nested path
WithSlot(docs, nestedPath) ==
    { r \in 1..Len(docs) :
        /\ docs[r].live
        /\ Lookup(FieldsOf(docs[r].doc), Names(nestedPath)).k = "obj" }

\* C25: the rewritten filter selects, among the stored documents that
\* have a sub-document at the nested path, exactly those whose
\* sub-document the filter itself selects.
C25_RewritePreservesMeaning ==
    /\ call.fn = "transformFilterForNestedPath"
    /\ ret # NoReturn
    /\ call.filter \in EvaluableFilters
    => \A r \in WithSlot(db, call.nestedPath) :
         MatchesFilter(FieldsOf(db[r].doc), ret.v)
           <=> MatchesFilter(Lookup(FieldsOf(db[r].doc),
                                    Names(call.nestedPath)),
                             call.filter)

\* the field names the filters use
FieldNames == {"a", "b", "d", "items", "addr", "type", "price", "city",
               "tags"}

\* a key that names a field, not an operator
IsBareKey(key) == key[1] \in FieldNames

\* a primitive, a Date, a RegExp, or an object of value operators
IsPlainValue(value) ==
    \/ value.k \in {"num", "str", "bool", "date", "regexp"}
    \/ /\ value.k = "obj"
       /\ Len(value.fields) > 0
       /\ \A i \in 1..Len(value.fields) :
            value.fields[i].key \in noTransformOps

RECURSIVE Conforms(_, _, _)
\* out is the filter with every bare key prefixed, at the top and inside
\* the sub-filters of $and / $or / $nor, which are as many and in the same
\* order; plain values are the same
Conforms(out, filter, nestedPath) ==
    /\ out.k = "obj"
    /\ Len(out.fields) = Len(filter.fields)
    /\ \A i \in 1..Len(filter.fields) :
         LET key == filter.fields[i].key
             value == filter.fields[i].value
             outKey == out.fields[i].key
             outValue == out.fields[i].value
         IN  IF key \in {<<"$and">>, <<"$or">>, <<"$nor">>}
             THEN /\ outKey = key
                  /\ outValue.k = "arr"
                  /\ Len(outValue.items) = Len(value.items)
                  /\ \A j \in 1..Len(value.items) :
                       Conforms(outValue.items[j], value.items[j],
                                nestedPath)
             ELSE IF IsBareKey(key)
             THEN /\ outKey = nestedPath \o <<".">> \o key
                  /\ IsPlainValue(value) => outValue = value
             ELSE TRUE

\* C26: the rewritten filter has every bare field key k, at the top level
\* and at any depth inside $and / $or / $nor, replaced by P.k; the logical
\* operators are kept with as many sub-filters in the same order; objects
\* of value operators and primitive, Date and RegExp values are unchanged.
C26_KeysPrefixed ==
    call.fn = "transformFilterForNestedPath" /\ ret # NoReturn =>
        Conforms(ret.v, call.filter, call.nestedPath)

\* a filter with an $and inside an $or beside a field compared with a
\* Date has been rewritten, down to the keys of the inner sub-filters
C26_Witness ==
    /\ call.fn = "transformFilterForNestedPath"
    /\ ret # NoReturn
    /\ Len(call.filter.fields) = 2
    /\ call.filter.fields[1].key = <<"$or">>
    /\ call.filter.fields[2].value.fields[1].value = DateOf(1)
    /\ ret.v.fields[2].key = call.nestedPath \o <<".", "d">>
    /\ LET inner == ret.v.fields[1].value.items[2].fields[1]
       IN  /\ inner.key = <<"$and">>
           /\ inner.value.items[1].fields[1].key
                = call.nestedPath \o <<".", "b">>
           /\ inner.value.items[2].fields[1].value
                = Obj(<<Field("$in", List(<<Num(2), Num(3)>>))>>)

RECURSIVE Flatten(_)
Flatten(seqs) ==
    IF seqs = <<>> THEN <<>> ELSE Head(seqs) \o Flatten(Tail(seqs))

\* the operators whose operand is relative to the matched element
RelativeOperators ==
    {<<"$elemMatch">>, <<"$near">>, <<"$geoWithin">>, <<"$geoIntersects">>}

RECURSIVE OperandsOf(_)
\* the operands of the relative operators in a value, outermost first
OperandsOf(value) ==
    IF value.k = "obj"
    THEN Flatten([i \in 1..Len(value.fields) |->
            IF value.fields[i].key \in RelativeOperators
            THEN <<value.fields[i].value>>
            ELSE OperandsOf(value.fields[i].value)])
    ELSE IF value.k = "arr"
    THEN Flatten([i \in 1..Len(value.items) |-> OperandsOf(value.items[i])])
    ELSE <<>>

\* C27: the operand of $elemMatch and of a geospatial operator is the same
\* in the rewritten filter as in the filter, whatever it contains.
C27_OperandsUntouched ==
    call.fn = "transformFilterForNestedPath" /\ ret # NoReturn =>
        OperandsOf(ret.v) = OperandsOf(call.filter)

\* the conditions of findOneProjection on a stored document: (i) the
\* stream subject is the one asked for, unless matchAll; (ii) the slot
\* exists; (iii) the rewritten filter selects it, when a filter is given
Wanted(doc, streamSubject, query) ==
    /\ query.matchAll \/ doc.streamSubject = streamSubject
    /\ query.projectionName \in DOMAIN doc.projections
    /\ query.projectionQuery # NoQuery =>
         MatchesFilter(FieldsOf(doc),
                       transformFilterForNestedPath(
                           query.projectionQuery,
                           SlotPath(query.projectionName)))

\* C28: findOneProjection returns the first document of the collection
\* that satisfies (i) streamSubject = X, (ii) the slot exists, (iii) the
\* rewritten filter when one is given, with (i) left out whenever
\* matchAll is true; null when there is none.
C28_FindOneFilter ==
    call.fn = "findOneProjection" /\ ret # NoReturn =>
        LET hits == { r \in Live :
                        Wanted(db[r].doc, call.streamSubject, call.query) }
        IN  /\ ret.ok
            /\ hits = {} => ret.v = Null
            /\ hits # {} =>
                 ret.v = db[CHOOSE r \in hits : \A q \in hits : r <= q].doc

\* where the event with the given id is stored: (record, position)
PlacesOf(id) ==
    { <<r, i>> \in (1..Len(db)) \X (1..(NumCalls * MaxBatch + 1)) :
        /\ db[r].live
        /\ i <= Len(db[r].doc.events)
        /\ db[r].doc.events[i].id = id }

\* where the "log" slots record the event with the given id
LoggedAt(id) ==
    { <<r, i>> \in (1..Len(db)) \X (1..(NumCalls * MaxBatch + 1)) :
        /\ db[r].live
        /\ "log" \in DOMAIN db[r].doc.projections
        /\ i <= Len(db[r].doc.projections["log"].v)
        /\ db[r].doc.projections["log"].v[i] = id }

\* the event is stored once, in a document of its stream, and that
\* document's log has it once
StoredOnce(event) ==
    /\ Cardinality(PlacesOf(event.id)) = 1
    /\ Cardinality(LoggedAt(event.id)) = 1
    /\ \A p \in PlacesOf(event.id) :
        /\ db[p[1]].doc.streamSubject =
               getStreamSubjectFromSubject(event.subject).v
        /\ \A q \in LoggedAt(event.id) : q[1] = p[1]

\* C31: once a call has returned, each of its events is in its stream
\* exactly once and folded into the committed projection state exactly
\* once, whatever the driver re-ran; once a call has thrown, none of its
\* events is stored.
C31_ExactlyOnce ==
    \A c \in Calls :
        /\ pc[c] = "done" =>
             \A i \in 1..Len(batch[c].events) :
                 StoredOnce(batch[c].events[i])
        /\ pc[c] = "failed" =>
             \A i \in 1..Len(batch[c].events) :
                 PlacesOf(batch[c].events[i].id) = {}

\* C32: when processStreamInTransaction is through with a bucket, it has
\* issued the event upsert and, only if a projection update was
\* accumulated for the bucket, the projection $set; a bucket whose event
\* types no registered projection handles has caused exactly one write.
C32_SecondWriteOnlyWithUpdates ==
    [][\A c \in Calls :
          pc[c] = "project" /\ pc'[c] \in {"upsert", "commit"} =>
              LET events == eventGroups[c][idx[c]].events
              IN  issued'[c] =
                      IF applicableProjections(projections, events) = <<>>
                      THEN <<"upsert">>
                      ELSE <<"upsert", "set">>]_vars

\* C33: when a call on several streams returns, every slot of every
\* stream S of the batch is what S's own events of the batch give: a
\* projection that handles one of their types has folded them, and them
\* only, onto the state S had; any other projection's slot is as it was.
C33_OwnEventsOnly ==
    [][\A c \in Calls :
          Returns(c) /\ Len(FirstAppearance(batch[c].events)) > 1 =>
            \A k \in 1..Len(FirstAppearance(batch[c].events)) :
                \A j \in 1..Len(projections) :
                    LET P == projections[j]
                        S == FirstAppearance(batch[c].events)[k]
                        own == EventsFor(batch[c].events, S)
                        before == DocOf(db, S)
                        after == DocOf(db', S).projections
                    IN  IF \E i \in 1..Len(own) : own[i].type \in P.canHandle
                        THEN /\ P.name \in DOMAIN after
                             /\ after[P.name] =
                                  Reduce(P.name, StartState(before, P.name),
                                         own).v
                        ELSE /\ P.name \in DOMAIN after
                                  <=> P.name \in DOMAIN before.projections
                             /\ P.name \in DOMAIN after =>
                                  after[P.name] = before.projections[P.name]
      ]_vars

\* a call on two streams has returned; the events of one are handled by
\* a projection that handles none of the other's, and the two documents
\* differ in the slots they have
C33_Witness ==
    \E c \in Calls :
        /\ Succeeded(c)
        /\ Len(FirstAppearance(batch[c].events)) = 2
        /\ LET S1 == FirstAppearance(batch[c].events)[1]
               S2 == FirstAppearance(batch[c].events)[2]
           IN  /\ EventTypesOf(EventsFor(batch[c].events, S1)) = {"updated"}
               /\ EventTypesOf(EventsFor(batch[c].events, S2)) = {"created"}
               /\ DOMAIN DocOf(db, S1).projections = {"open"}
               /\ DOMAIN DocOf(db, S2).projections = {"log"}

\* when a date was read: its place among the dates read so far, 0 for
\* the date of the document the store was constructed over
TimeOf(date) ==
    IF \E i \in 1..Len(dates) : dates[i] = date
    THEN CHOOSE i \in 1..Len(dates) : dates[i] = date
    ELSE 0

\* C34: from one committed state to the next the updatedAt of a stored
\* document never goes back in time, and in every state its createdAt is
\* not later than its updatedAt.
C34_UpdatedAtMonotonic ==
    [][\A r \in 1..Len(db') :
          db'[r].live =>
            /\ TimeOf(db'[r].doc.metadata.createdAt)
                 <= TimeOf(db'[r].doc.metadata.updatedAt)
            /\ r <= Len(db) /\ db[r].live =>
                 TimeOf(db[r].doc.metadata.updatedAt)
                   <= TimeOf(db'[r].doc.metadata.updatedAt)
      ]_vars

\* C35: a call whose events all belong to one stream S ends the same
\* way through the shortcut and through the multi-stream loop.  When it
\* returns, S's document is the one before with the batch pushed and the
\* selected slots folded, it is the only document changed, and the
\* result holds that document, the length of the batch and S; it returns
\* in no case where the collection name or an evolve throws.  When it
\* throws, the error is that of the collection name, of evolve or of the
\* driver, and the stored documents and collections are as before.
C35_ShortcutEquivalent ==
    [][\A c \in Calls :
          /\ pc[c] \notin {"done", "failed"}
          /\ pc'[c] \in {"done", "failed"}
          /\ batch'[c].given
          /\ Len(batch'[c].events) > 0
          /\ \A i \in 1..Len(batch'[c].events) :
                 /\ getStreamSubjectFromSubject(
                        batch'[c].events[i].subject).ok
                 /\ StreamSubjectOf(batch'[c].events[i]) =
                        StreamSubjectOf(batch'[c].events[1])
          =>
          LET events == batch'[c].events
              S == StreamSubjectOf(events[1])
              coll == getCollectionNameFromSubject(S)
              r == IF coll.ok THEN FindOne(db, coll.v, S) ELSE 0
              pushed == UpsertDoc(r = 0,
                                  IF r = 0 THEN NoResult ELSE db[r].doc,
                                  <<c, attempts'[c], 1>>,
                                  <<c, attempts'[c], 1>>, S, events)
              updates == SetUpdates(projections, pushed, events)
              after == SetProjections(pushed, updates.v)
              r2 == IF coll.ok THEN FindOne(db', coll.v, S) ELSE 0
          IN  /\ pc'[c] = "done" =>
                   /\ coll.ok /\ updates.ok
                   /\ outcome'[c] =
                        [kind |-> "ok", streams |-> <<after>>,
                         totalEventsAppended |-> Len(events),
                         streamSubjects |-> <<S>>]
                   /\ r2 # 0 /\ db'[r2].doc = after
                   /\ \A q \in 1..Len(db) :
                        db[q].live /\ q # r => db'[q] = db[q]
                   /\ colls' = colls \cup {coll.v}
              /\ pc'[c] = "failed" =>
                   /\ StoredDocs(db') = StoredDocs(db)
                   /\ colls' = colls
                   /\ outcome'[c].kind = "error"
                   /\ IF ~coll.ok
                      THEN outcome'[c].err = "InvalidSubjectFormatError"
                      ELSE \/ outcome'[c].err = "StorageError"
                           \/ ~updates.ok /\ outcome'[c].err = updates.err
      ]_vars

\* two calls on one stream have returned, the first through the
\* shortcut and the second, on the document the first left, through the
\* loop
C35_Witness ==
    \E c, d \in Calls :
        /\ c \in looped /\ d \notin looped
        /\ Succeeded(c) /\ Succeeded(d)
        /\ Len(eventGroups[c]) = 1 /\ Len(eventGroups[d]) = 1
        /\ Len(batch[d].events) > 1
        /\ d < c

\* a session is started once and ended once, in that order
SessionSteps(c) ==
    session'[c] # session[c] =>
        \/ session[c] = "none" /\ session'[c] = "open"
        \/ session[c] = "open" /\ session'[c] = "ended"

\* no session of a call that has returned or thrown is open
EndedAfterwards(c) ==
    pc'[c] \in {"done", "failed"} => session'[c] # "open"

\* C36 as stated: every call past the empty-batch check has started a
\* session, exactly one, and the session is ended once the call has
\* returned or thrown.
C36_SessionPerCall ==
    [][\A c \in Calls :
          /\ pc'[c] # "idle" /\ ~IsEmptyBatch(batch'[c]) =>
                 session'[c] \in {"open", "ended"}
          /\ SessionSteps(c)
          /\ EndedAfterwards(c)
      ]_vars

\* the call has got to startSession: its grouping did not throw and, for
\* the events of one stream, neither did getCollectionBySubject
ReachesStartSession(arg) ==
    LET groups == groupEventsByStreamSubject(arg.events)
    IN  /\ ~IsEmptyBatch(arg)
        /\ groups.ok
        /\ Len(groups.v) = 1 =>
               getCollectionNameFromSubject(groups.v[1].key).ok

\* C36 amended: a call starts a session exactly when its batch is not
\* empty, its grouping does not throw and, for the events of one stream,
\* the collection lookup does not throw; it starts one only, and the
\* session is ended once the call has returned or thrown, after a commit,
\* an abort, a database error or a throwing evolve.
C36_SessionWhenStarted ==
    [][\A c \in Calls :
          /\ pc'[c] # "idle" =>
                 IF ReachesStartSession(batch'[c])
                 THEN session'[c] \in {"open", "ended"}
                 ELSE session'[c] = "none"
          /\ SessionSteps(c)
          /\ EndedAfterwards(c)
      ]_vars

\* one call threw in its grouping without a session, the other one threw
\* from evolve and its session is ended
C36_Witness ==
    \E c, d \in Calls :
        /\ Threw(c) /\ ~IsEmptyBatch(batch[c]) /\ session[c] = "none"
        /\ ~groupEventsByStreamSubject(batch[c].events).ok
        /\ Threw(d) /\ outcome[d].err = "EvolveError"
        /\ session[d] = "ended"

\* the handler of invocation h threw
HandlerThrew(h) ==
    /\ calls[h] # <<>>
    /\ calls[h][Len(calls[h])].op = "commandHandlerFunction"
    /\ "thrown" \in DOMAIN calls[h][Len(calls[h])].result

\* C37: once commandHandlerFunction has thrown, handleCommand has
\* rejected with the error thrown, appendOrCreateStream has not been and
\* is never called by it, and nothing of the invocation is stored.
C37_HandlerErrorPropagates ==
    HandlerThrew(HCall) =>
        /\ cmdPc[HCall] = "failed"
        /\ newState[HCall] =
             [kind |-> "error",
              err |-> calls[HCall][Len(calls[HCall])].result.thrown]
        /\ pc[HCall] = "idle"
        /\ session[HCall] = "none"
        /\ NoTrace(HCall)

\* the handler threw after two streams had been aggregated, while another
\* caller's append was stored
C37_Witness ==
    /\ HandlerThrew(HCall)
    /\ Len(calls[HCall]) = 3
    /\ \E c \in Calls \ {HCall} : Succeeded(c)

\* the handler of invocation h resolved to an empty array
ResolvedToNoEvents(h) ==
    /\ calls[h] # <<>>
    /\ calls[h][Len(calls[h])].op = "commandHandlerFunction"
    /\ "array" \in DOMAIN HandlerResult(h)
    /\ HandlerResult(h).array
    /\ HandlerResult(h).events = <<>>

\* C38: when the handler resolved to an empty array, the append that
\* handleCommand calls is rejected as an empty batch before any session
\* or database operation, handleCommand fails with that error, and it
\* never returns a result.
C38_NoEventsFails ==
    ResolvedToNoEvents(HCall) =>
        /\ cmdPc[HCall] \in {"append", "failed"}
        /\ pc[HCall] \in {"idle", "failed"}
        /\ session[HCall] = "none"
        /\ writes[HCall] = EmptyMap
        /\ pc[HCall] = "failed" =>
             /\ outcome[HCall].kind = "error"
             /\ outcome[HCall].err = "EmptyBatch"
        /\ cmdPc[HCall] = "failed" =>
             /\ pc[HCall] = "failed"
             /\ newState[HCall] = outcome[HCall]

\* handleCommand has failed with the empty-batch error after its handler
\* resolved to an empty array, with a stream stored by another caller
C38_Witness ==
    /\ ResolvedToNoEvents(HCall)
    /\ cmdPc[HCall] = "failed"
    /\ newState[HCall].err = "EmptyBatch"
    /\ \E c \in Calls \ {HCall} : Succeeded(c)

\* C39: attemptConnection calls client.connect() at most maxRetries
\* times, 3 when the options give none; after the k-th failure, k below
\* maxRetries, it waits retryDelayMs * k; once it has returned retryCount
\* is 0 and no attempt follows; it throws after maxRetries failures only,
\* and no attempt follows.
C39_BoundedRetries ==
    /\ "maxRetries" \notin DOMAIN wrapper.config =>
           wrapper.maxRetries = 3
    /\ wrapper.connects <= wrapper.maxRetries
    /\ \A k \in 1..Len(wrapper.delays) :
           /\ k < wrapper.maxRetries
           /\ wrapper.delays[k] = wrapper.retryDelayMs * k
    /\ wrapper.attempt = "fulfilled" =>
           /\ wrapper.retryCount = 0
           /\ wrapper.connectPc = "returned"
    /\ wrapper.attempt = "rejected" =>
           /\ wrapper.connects = wrapper.maxRetries
           /\ wrapper.connectPc = "threw"

\* C40: when the promise of waitForConnection() has resolved, the
\* connection attempt the constructor started has completed successfully;
\* after an attempt that failed through all its retries it has not resolved.
C40_ResolvedMeansConnected ==
    wrapper.waitPc = "resolved" => wrapper.succeeded

====
